---- MODULE Spec2Model ----
(***************************************************************************)
(* A model of the Crema compiler front end (cremacc): the Type lattice of  *)
(* types.cpp, the SemanticContext of semantics.cpp and the semantic        *)
(* analysis and recursion check that walk the AST of ast.h.                *)
(***************************************************************************)
EXTENDS Integers, Sequences, FiniteSets, TLC

VARIABLES
    tyA,        \* first operand handed to the Type comparison operators
    tyB,        \* second operand handed to the Type comparison operators
    cmp,        \* results of the comparison operators on (tyA, tyB)
    prog,       \* rootBlock->statements, as built by the parser
    funcs,      \* SemanticContext::funcs
    vars,       \* SemanticContext::vars, the stack of scopes
    currType,   \* SemanticContext::currType, the stack of return types
    currScope,  \* SemanticContext::currScope
    pc,         \* position of the driver / of NBlock::semanticAnalysis on the root
    idx,        \* index of the root statement analysed next
    last,       \* what the last step did (operation, operands, outcome)
    status,     \* exit status of the cremacc process, once pc = "exited"
    emitted,    \* the run of the code emitted for a foreach: list, counter, loop variable
    list,       \* a list_t of the running program, as the routines of stdlib.h leave it
    context     \* the CodeGenContext: blocks, variables, Builder, and the module emitted

allvars ==
    <<tyA, tyB, cmp, prog, funcs, vars, currType, currScope, pc, idx, last, status, emitted,
      list, context>>

----------------------------------------------------------------------------
(* Types: types.h / types.cpp *)

TypeCodes == {"INT", "CHAR", "UINT", "DOUBLE", "STRING", "BOOL", "VOID", "STRUCT", "INVALID"}

Types == [typecode : TypeCodes, isList : BOOLEAN]

Ty(code, l) == [typecode |-> code, isList |-> l]

\* Type::Type(): typecode(INVALID); isList is left uninitialised by the
\* constructor, so a default-constructed Type may carry either value.
InvalidTypes == {Ty("INVALID", l) : l \in BOOLEAN}

\* Names of records
RecordNames == {"A", "B"}

\* StructType(NIdentifier & ident) : ident(ident) { setType(STRUCT); ... }: the base
\* Type() sets typecode INVALID and leaves isList indeterminate; setType switches
\* on the parser's type tokens, none of which the TypeCodes value STRUCT equals,
\* so it changes nothing.
StructTypes ==
    {[typecode |-> "INVALID", isList |-> l, ident |-> n] : l \in BOOLEAN, n \in RecordNames}

IsStructType(t) == "ident" \in DOMAIN t

\* bool operator==(Type & t1, Type & t2)
TypeEq(t1, t2) == (t1.typecode = t2.typecode) /\ (t1.isList = t2.isList)

\* bool operator!=(Type & t1, Type & t2)
TypeNeq(t1, t2) == ~TypeEq(t1, t2)

\* bool operator>(Type & t1, Type & t2)
TypeGt(t1, t2) ==
    IF t1.isList # t2.isList THEN FALSE
    ELSE IF t1.typecode = "DOUBLE" /\ t2.typecode \in {"INT", "UINT"} THEN TRUE
    ELSE IF t1.typecode = "INT" /\ t2.typecode = "CHAR" THEN TRUE
    ELSE IF (t1.typecode = "INT" \/ t2.typecode = "UINT" \/ t2.typecode = "DOUBLE")
            /\ t2.typecode = "BOOL" THEN TRUE
    ELSE IF t1.typecode = "BOOL" /\ t2.typecode \in {"DOUBLE", "INT", "UINT"} THEN TRUE
    ELSE IF t1.typecode = "STRING" /\ t2.typecode \in {"UINT", "INT", "DOUBLE"} THEN TRUE
    ELSE FALSE

\* bool operator>=(Type & t1, Type & t2)
TypeGe(t1, t2) == TypeEq(t1, t2) \/ TypeGt(t1, t2)

\* bool operator<(Type & t1, Type & t2)
TypeLt(t1, t2) == ~TypeGe(t1, t2)

\* bool operator<=(Type & t1, Type & t2)
TypeLe(t1, t2) == TypeEq(t1, t2) \/ TypeLt(t1, t2)

\* The type tokens of the grammar rule `type`
TypeTokens == {"TTDOUBLE", "TTINT", "TTUINT", "TTSTR", "TTVOID", "TTBOOL"}

\* void Type::setType(int type): the typecode and, for TTSTR, the isList it sets
setType(tok) ==
    CASE tok = "TTINT" -> [typecode |-> "INT", setsList |-> FALSE]
      [] tok = "TTUINT" -> [typecode |-> "UINT", setsList |-> FALSE]
      [] tok = "TTDOUBLE" -> [typecode |-> "DOUBLE", setsList |-> FALSE]
      [] tok = "TTCHAR" -> [typecode |-> "CHAR", setsList |-> FALSE]
      [] tok = "TTBOOL" -> [typecode |-> "BOOL", setsList |-> FALSE]
      [] tok = "TTSTR" -> [typecode |-> "CHAR", setsList |-> TRUE]
      [] tok = "TTVOID" -> [typecode |-> "VOID", setsList |-> FALSE]

\* Type(int type, bool l) { setType(type); isList = l; }
NewTypeList(tok, l) == Ty(setType(tok).typecode, l)

\* Type(int type) { setType(type); isList = false; }
NewType(tok) == NewTypeList(tok, FALSE)

\* The types a declaration can name: var_decl and list_decl of the grammar
DeclTypes == {NewTypeList(tok, l) : tok \in TypeTokens, l \in BOOLEAN}

----------------------------------------------------------------------------
(* AST nodes: ast.h.  A block is the sequence of its statements. *)

\* NValue and its subclasses: a literal whose type the parser has set
Val(t) == [k |-> "val", type |-> t]

\* NVariableAccess
VarAccess(n) == [k |-> "var", ident |-> n]

\* NFunctionCall
FunctionCall(n, a) == [k |-> "call", ident |-> n, args |-> a]

\* NBinaryOperator; op is "cmp" for TCEQ..TCGT, TLOR, TLAND and "arith" otherwise
BinaryOperator(l, o, r) == [k |-> "binop", op |-> o, lhs |-> l, rhs |-> r]

\* NVariableDeclaration; hasInit is initializationExpression != NULL
VariableDeclaration(t, n) == [k |-> "vardecl", type |-> t, ident |-> n, hasInit |-> FALSE]

VariableDeclarationInit(t, n, e) ==
    [k |-> "vardecl", type |-> t, ident |-> n, hasInit |-> TRUE, init |-> e]

\* NAssignmentStatement
AssignmentStatement(n, e) == [k |-> "assign", ident |-> n, expr |-> e]

\* NReturn
Return(e) == [k |-> "return", retExpr |-> e]

\* NIfStatement, its three constructors
IfStatement(c, t) ==
    [k |-> "if", condition |-> c, thenblock |-> t, hasElse |-> FALSE, hasElseif |-> FALSE]

IfElseStatement(c, t, e) ==
    [k |-> "if", condition |-> c, thenblock |-> t, hasElse |-> TRUE, elseblock |-> e,
     hasElseif |-> FALSE]

IfElseifStatement(c, t, ei) ==
    [k |-> "if", condition |-> c, thenblock |-> t, hasElse |-> FALSE, hasElseif |-> TRUE,
     elseif |-> ei]

\* NLoopStatement
LoopStatement(l, a, b) == [k |-> "loop", list |-> l, asVar |-> a, loopBlock |-> b]

\* NFunctionDeclaration; variables are NVariableDeclarations, hasBody is body != NULL
FunctionDeclaration(t, n, v, b) ==
    [k |-> "funcdecl", type |-> t, ident |-> n, variables |-> v, hasBody |-> TRUE, body |-> b]

----------------------------------------------------------------------------
(* SemanticContext: semantics.h, semantics.cpp *)

\* The fields of a SemanticContext
MkCtx(v, ct, cs, f) == [vars |-> v, currType |-> ct, currScope |-> cs, funcs |-> f]

\* void SemanticContext::newScope(Type & type)
newScope(ctx, type) ==
    [ctx EXCEPT !.vars = Append(@, <<>>),
                !.currType = Append(@, type),
                !.currScope = @ + 1]

\* void SemanticContext::delScope()
delScope(ctx) ==
    [ctx EXCEPT !.vars = SubSeq(@, 1, Len(@) - 1),
                !.currType = SubSeq(@, 1, Len(@) - 1),
                !.currScope = @ - 1]

\* SemanticContext::SemanticContext(): the root scope, of type INT, and currScope = 0
RootCtx(f) == [newScope(MkCtx(<<>>, <<>>, 0, f), Ty("INT", FALSE)) EXCEPT !.currScope = 0]

\* NFunctionDeclaration * SemanticContext::searchFuncs(NIdentifier & ident): the
\* index in funcs of the first function of that name, 0 for NULL
searchFuncs(ctx, ident) ==
    LET hits == {i \in 1..Len(ctx.funcs) : ctx.funcs[i].ident = ident}
    IN  IF hits = {} THEN 0 ELSE CHOOSE i \in hits : \A j \in hits : i <= j

\* The variables of scope i (1 is the root) in the order of search
RECURSIVE ScopeHit(_, _, _)
ScopeHit(scope, ident, j) ==
    IF j > Len(scope) THEN 0
    ELSE IF scope[j].ident = ident THEN j
    ELSE ScopeHit(scope, ident, j + 1)

\* NVariableDeclaration * SemanticContext::searchVars(NIdentifier & ident): the
\* scope and position <<i, j>> of the declaration found, <<0, 0>> for NULL
RECURSIVE searchVarsFrom(_, _, _)
searchVarsFrom(ctx, ident, i) ==
    IF i < 1 THEN <<0, 0>>
    ELSE LET j == ScopeHit(ctx.vars[i], ident, 1)
         IN  IF j # 0 THEN <<i, j>> ELSE searchVarsFrom(ctx, ident, i - 1)

\* A search of the scopes from the root inward, which finds the outermost
\* declaration of a name
searchVarsOutward(ctx, ident) ==
    LET S == {i \in 1..Len(ctx.vars) : ScopeHit(ctx.vars[i], ident, 1) # 0}
    IN  IF S = {} THEN <<0, 0>>
        ELSE LET i == CHOOSE k \in S : \A m \in S : k <= m
             IN  <<i, ScopeHit(ctx.vars[i], ident, 1)>>

searchVars(ctx, ident) == searchVarsFrom(ctx, ident, Len(ctx.vars))

\* The declaration a successful searchVars points at
VarAt(ctx, hit) == ctx.vars[hit[1]][hit[2]]


\* registerVar without the refusal of a function's name
registerVarAnyName(ctx, var) ==
    IF ScopeHit(ctx.vars[ctx.currScope + 1], var.ident, 1) # 0
    THEN [ok |-> FALSE, ctx |-> ctx]
    ELSE [ok |-> TRUE,
          ctx |-> [ctx EXCEPT !.vars[ctx.currScope + 1] = Append(@, var)]]

\* bool SemanticContext::registerVar(NVariableDeclaration * var)
registerVar(ctx, var) ==
    IF searchFuncs(ctx, var.ident) # 0 THEN [ok |-> FALSE, ctx |-> ctx]
    ELSE IF ScopeHit(ctx.vars[ctx.currScope + 1], var.ident, 1) # 0
         THEN [ok |-> FALSE, ctx |-> ctx]
    ELSE [ok |-> TRUE,
          ctx |-> [ctx EXCEPT !.vars[ctx.currScope + 1] = Append(@, var)]]

\* bool SemanticContext::registerFunc(NFunctionDeclaration * func)
registerFunc(ctx, func) ==
    IF searchVars(ctx, func.ident) # <<0, 0>> THEN [ok |-> FALSE, ctx |-> ctx]
    ELSE IF searchFuncs(ctx, func.ident) # 0 THEN [ok |-> FALSE, ctx |-> ctx]
    ELSE [ok |-> TRUE, ctx |-> [ctx EXCEPT !.funcs = Append(@, func)]]

----------------------------------------------------------------------------
(* Typing of expressions: semantics.cpp.  getType allocates its INVALID       *)
(* results with new Type(), whose isList is indeterminate, so the typing of   *)
(* an expression is the set of the types a run may compute.                    *)

\* The entry of a scope for a declaration: its name and its type
VarOf(decl) == [ident |-> decl.ident, type |-> decl.type]

\* Type & NBinaryOperator::getType, for operand types t1 and t2
BinaryOperatorType(op, t1, t2) ==
    IF op = "cmp" THEN {Ty("BOOL", FALSE)}
    ELSE IF ~(TypeGe(t1, t2) \/ TypeGe(t2, t1)) THEN InvalidTypes
    ELSE IF TypeEq(t1, t2) THEN {t1}
    ELSE IF TypeGt(t1, t2) THEN {t1} ELSE {t2}

\* Type & NExpression::getType(SemanticContext * ctx), by node class:
\* NValue, NVariableAccess, NFunctionCall, NBinaryOperator
RECURSIVE getType(_, _)
getType(e, ctx) ==
    CASE e.k = "val" -> {e.type}
      [] e.k = "var" ->
            LET hit == searchVars(ctx, e.ident)
            IN  IF hit # <<0, 0>> THEN {VarAt(ctx, hit).type} ELSE InvalidTypes
      [] e.k = "call" ->
            LET f == searchFuncs(ctx, e.ident)
            IN  IF f # 0 THEN {ctx.funcs[f].type} ELSE InvalidTypes
      [] e.k = "binop" ->
            UNION {BinaryOperatorType(e.op, t1, t2) :
                       t1 \in getType(e.lhs, ctx), t2 \in getType(e.rhs, ctx)}

\* The argument loop of NFunctionCall::semanticAnalysis from argument i on
RECURSIVE CallArgsFrom(_, _, _, _)
CallArgsFrom(e, func, ctx, i) ==
    IF i > Len(e.args) THEN {TRUE}
    ELSE UNION {IF TypeGt(t, func.variables[i].type) THEN {FALSE}
                ELSE CallArgsFrom(e, func, ctx, i + 1) : t \in getType(e.args[i], ctx)}

\* bool NFunctionCall::semanticAnalysis(SemanticContext * ctx)
FunctionCallSA(e, ctx) ==
    LET f == searchFuncs(ctx, e.ident)
    IN  IF f = 0 THEN {FALSE}
        ELSE IF Len(ctx.funcs[f].variables) # Len(e.args) THEN {FALSE}
        ELSE CallArgsFrom(e, ctx.funcs[f], ctx, 1)

\* bool NBinaryOperator::semanticAnalysis(SemanticContext * ctx)
BinaryOperatorSA(e, ctx) ==
    {TypeGe(t1, t2) \/ TypeGe(t2, t1) :
         t1 \in getType(e.lhs, ctx), t2 \in getType(e.rhs, ctx)}

\* bool NExpression::semanticAnalysis(SemanticContext * ctx), by node class
ExpressionSA(e, ctx) ==
    CASE e.k = "val" -> {TRUE}
      [] e.k = "var" -> {searchVars(ctx, e.ident) # <<0, 0>>}
      [] e.k = "call" -> FunctionCallSA(e, ctx)
      [] e.k = "binop" -> BinaryOperatorSA(e, ctx)

----------------------------------------------------------------------------
(* The recursion check: ast.h (inline bodies), semantics.cpp.  An outcome is  *)
(* "true" or "false" (the value returned), "fault" (a null pointer was        *)
(* followed) or "overflow" (the C++ call stack was exhausted).                *)

\* Largest nesting of callee bodies the recursion check is followed to; the
\* functions of a program are fewer, so a deeper nesting repeats a callee
MaxCallDepth == 4

\* Following a NULL NFunctionDeclaration* or NBlock* is undefined: the process
\* faults, or the call yields some value
NullDeref == {"fault", "true", "false"}

\* a || b on outcomes
OrElse(A, B) == (A \ {"false"}) \cup (IF "false" \in A THEN B ELSE {})

RECURSIVE checkRecursion(_, _, _, _)
RECURSIVE BlockCheckRecursion(_, _, _, _, _)

\* bool NFunctionCall::checkRecursion(SemanticContext * ctx, NFunctionDeclaration * func)
FunctionCallCheckRecursion(e, func, ctx, depth) ==
    IF func.ident = e.ident THEN {"true"}
    ELSE LET f == searchFuncs(ctx, e.ident)
         IN  IF f = 0 THEN NullDeref
             ELSE IF ~ctx.funcs[f].hasBody THEN NullDeref
             ELSE IF depth >= MaxCallDepth THEN {"overflow"}
             ELSE BlockCheckRecursion(ctx.funcs[f].body, 1, func, ctx, depth + 1)

\* bool NIfStatement::checkRecursion(SemanticContext *ctx, NFunctionDeclaration * func)
IfStatementCheckRecursion(s, func, ctx, depth) ==
    OrElse(BlockCheckRecursion(s.thenblock, 1, func, ctx, depth),
           OrElse(IF s.hasElse THEN BlockCheckRecursion(s.elseblock, 1, func, ctx, depth)
                  ELSE {"false"},
                  IF s.hasElseif THEN checkRecursion(s.elseif, func, ctx, depth)
                  ELSE {"false"}))

\* bool Node::checkRecursion(SemanticContext *ctx, NFunctionDeclaration * func), by
\* node class
checkRecursion(n, func, ctx, depth) ==
    CASE n.k = "val" -> {"false"}
      [] n.k = "var" -> {"false"}
      [] n.k = "call" -> FunctionCallCheckRecursion(n, func, ctx, depth)
      [] n.k = "binop" -> OrElse(checkRecursion(n.lhs, func, ctx, depth),
                                 checkRecursion(n.rhs, func, ctx, depth))
      [] n.k = "vardecl" -> IF n.hasInit THEN checkRecursion(n.init, func, ctx, depth)
                            ELSE {"false"}
      [] n.k = "assign" -> checkRecursion(n.expr, func, ctx, depth)
      [] n.k = "return" -> checkRecursion(n.retExpr, func, ctx, depth)
      [] n.k = "if" -> IfStatementCheckRecursion(n, func, ctx, depth)
      [] n.k = "loop" -> BlockCheckRecursion(n.loopBlock, 1, func, ctx, depth)
      [] n.k = "funcdecl" -> {"false"}

\* bool NBlock::checkRecursion(SemanticContext *ctx, NFunctionDeclaration * func),
\* from statement i on
BlockCheckRecursion(stmts, i, func, ctx, depth) ==
    IF i > Len(stmts) THEN {"false"}
    ELSE OrElse(checkRecursion(stmts[i], func, ctx, depth),
                BlockCheckRecursion(stmts, i + 1, func, ctx, depth))

----------------------------------------------------------------------------
(* Semantic analysis of statements: semantics.cpp.  An outcome is the value   *)
(* returned ("true", "false") or the way the process died ("fault",           *)
(* "overflow"), with the SemanticContext the call leaves behind.               *)

Out(r, c) == [res |-> r, ctx |-> c]

OfBool(b) == IF b THEN "true" ELSE "false"

\* bool NVariableDeclaration::semanticAnalysis(SemanticContext * ctx)
VariableDeclarationSA(s, ctx) ==
    LET r == registerVar(ctx, VarOf(s))
    IN  IF ~r.ok THEN {Out("false", ctx)}
        ELSE IF s.hasInit
             THEN UNION {IF TypeLt(s.type, t) THEN {Out("false", r.ctx)}
                         ELSE {Out(OfBool(b), r.ctx) : b \in ExpressionSA(s.init, r.ctx)} :
                             t \in getType(s.init, r.ctx)}
        ELSE {Out("true", r.ctx)}

\* bool NAssignmentStatement::semanticAnalysis(SemanticContext * ctx)
AssignmentStatementSA(s, ctx) ==
    LET hit == searchVars(ctx, s.ident)
    IN  IF hit = <<0, 0>> THEN {Out("false", ctx)}
        ELSE {Out(OfBool(~TypeLt(VarAt(ctx, hit).type, t)), ctx) : t \in getType(s.expr, ctx)}

\* bool NReturn::semanticAnalysis(SemanticContext * ctx)
ReturnSA(s, ctx) ==
    {Out(OfBool(~TypeGt(t, ctx.currType[Len(ctx.currType)])), ctx) :
         t \in getType(s.retExpr, ctx)}

RECURSIVE StatementSA(_, _)
RECURSIVE BlockFrom(_, _, _)

\* bool NBlock::semanticAnalysis(SemanticContext * ctx)
BlockSA(stmts, ctx) == BlockFrom(stmts, 1, newScope(ctx, ctx.currType[Len(ctx.currType)]))

\* The statement loop of NBlock::semanticAnalysis from statement i on, and its
\* closing delScope
BlockFrom(stmts, i, ctx) ==
    IF i > Len(stmts) THEN {Out("true", delScope(ctx))}
    ELSE UNION {IF o.res = "true" THEN BlockFrom(stmts, i + 1, o.ctx) ELSE {o} :
                    o \in StatementSA(stmts[i], ctx)}

\* b->semanticAnalysis(ctx) for an optional part, absent parts passing
ThenSA(outs, present, node, isBlock) ==
    UNION {IF o.res # "true" \/ ~present THEN {o}
           ELSE IF isBlock THEN BlockSA(node, o.ctx) ELSE StatementSA(node, o.ctx) :
               o \in outs}

\* bool NIfStatement::semanticAnalysis(SemanticContext * ctx)
IfStatementSA(s, ctx) ==
    LET cond == {Out(OfBool(t.typecode \notin {"STRING", "INVALID", "VOID"}), ctx) :
                     t \in getType(s.condition, ctx)}
        afterElse == ThenSA(cond, s.hasElse, IF s.hasElse THEN s.elseblock ELSE <<>>, TRUE)
        afterElseif == ThenSA(afterElse, s.hasElseif,
                              IF s.hasElseif THEN s.elseif ELSE s, FALSE)
    IN  ThenSA(afterElseif, TRUE, s.thenblock, TRUE)

\* bool NLoopStatement::semanticAnalysis(SemanticContext * ctx)
LoopStatementSA(s, ctx) ==
    LET hit == searchVars(ctx, s.list)
    IN  IF hit = <<0, 0>> THEN {Out("false", ctx)}
        ELSE IF ~VarAt(ctx, hit).type.isList THEN {Out("false", ctx)}
        ELSE LET st == Ty(VarAt(ctx, hit).type.typecode, FALSE)
                 c1 == newScope(ctx, ctx.currType[Len(ctx.currType)])
                 c2 == registerVar(c1, [ident |-> s.asVar, type |-> st]).ctx
             IN  {IF o.res \in {"true", "false"} THEN Out(o.res, delScope(o.ctx)) ELSE o :
                      o \in BlockSA(s.loopBlock, c2)}

\* The parameter loop of NFunctionDeclaration::semanticAnalysis from parameter i on
RECURSIVE RegisterParams(_, _, _)
RegisterParams(variables, i, ctx) ==
    IF i > Len(variables) THEN [ok |-> TRUE, ctx |-> ctx]
    ELSE LET r == registerVar(ctx, VarOf(variables[i]))
         IN  IF ~r.ok THEN [ok |-> FALSE, ctx |-> ctx]
             ELSE RegisterParams(variables, i + 1, r.ctx)

\* bool NFunctionDeclaration::semanticAnalysis(SemanticContext * ctx)
FunctionDeclarationSA(s, ctx) ==
    LET p == RegisterParams(s.variables, 1, newScope(ctx, s.type))
    IN  IF ~p.ok THEN {Out("false", delScope(p.ctx))}
        ELSE IF ~s.hasBody THEN {Out("fault", p.ctx)}
        ELSE UNION {IF blockSA.res \notin {"true", "false"} THEN {blockSA}
                    ELSE {IF blockRecur \in {"true", "false"}
                          THEN Out(OfBool(blockSA.res = "true" /\ blockRecur = "false"),
                                   delScope(blockSA.ctx))
                          ELSE Out(blockRecur, blockSA.ctx) :
                              blockRecur \in BlockCheckRecursion(s.body, 1, s, blockSA.ctx, 0)} :
                        blockSA \in BlockSA(s.body, p.ctx)}

\* bool NStatement::semanticAnalysis(SemanticContext * ctx), by node class
StatementSA(s, ctx) ==
    CASE s.k = "vardecl" -> VariableDeclarationSA(s, ctx)
      [] s.k = "assign" -> AssignmentStatementSA(s, ctx)
      [] s.k = "return" -> ReturnSA(s, ctx)
      [] s.k = "if" -> IfStatementSA(s, ctx)
      [] s.k = "loop" -> LoopStatementSA(s, ctx)
      [] s.k = "funcdecl" -> FunctionDeclarationSA(s, ctx)

----------------------------------------------------------------------------
(* The programs analysed.  Function declarations are top-level statements;   *)
(* the parser registers each one as it reduces it, and ends the run on a      *)
(* duplicate name, so the functions of an analysed program differ in name.    *)

TInt == NewType("TTINT")

TBool == NewType("TTBOOL")

IntLit == Val(TInt)

NoArgs == <<>>

\* statement : func_decl { rootCtx.registerFunc(...) }: the functions of the
\* program in source order, registered while no variable is
RECURSIVE ParserFuncs(_, _, _)
ParserFuncs(stmts, i, ctx) ==
    IF i > Len(stmts) THEN ctx.funcs
    ELSE IF stmts[i].k = "funcdecl"
         THEN ParserFuncs(stmts, i + 1, registerFunc(ctx, stmts[i]).ctx)
    ELSE ParserFuncs(stmts, i + 1, ctx)

\* Declarations of a of type T and of b of type S, then one statement on them
TypedPrograms ==
    UNION {{<<VariableDeclaration(T, "a"), VariableDeclaration(S, "b"),
              AssignmentStatement("a", VarAccess("b"))>>,
            <<FunctionDeclaration(T, "f", <<VariableDeclaration(S, "b")>>,
                                  <<Return(VarAccess("b"))>>)>>,
            <<FunctionDeclaration(TInt, "g", <<VariableDeclaration(T, "p")>>, <<>>),
              VariableDeclaration(S, "b"),
              VariableDeclarationInit(TInt, "c", FunctionCall("g", <<VarAccess("b")>>))>>} :
               T \in DeclTypes, S \in DeclTypes}

\* Expressions that name the undeclared variable u or the undeclared function u
UndefinedExprs ==
    {VarAccess("u"), FunctionCall("u", NoArgs),
     BinaryOperator(VarAccess("u"), "cmp", IntLit),
     BinaryOperator(IntLit, "arith", FunctionCall("u", NoArgs)),
     BinaryOperator(VarAccess("u"), "arith", VarAccess("u")),
     BinaryOperator(VarAccess("u"), "cmp", VarAccess("u"))}

\* Expressions whose names are all declared in UseSitePrograms
DefinedExprs ==
    {VarAccess("a"), IntLit, Val(TBool), FunctionCall("g", <<IntLit>>),
     BinaryOperator(VarAccess("a"), "arith", IntLit)}

\* The statements that hold an expression e
UseSites(e) ==
    {VariableDeclarationInit(TInt, "c", e),
     AssignmentStatement("a", e),
     Return(e),
     IfStatement(e, <<>>),
     IfElseStatement(e, <<AssignmentStatement("a", IntLit)>>, <<Return(IntLit)>>),
     VariableDeclarationInit(TInt, "c", FunctionCall("g", <<e>>))}

\* int a, def int g(int p) { return p }, then a statement holding e
UseSitePrograms ==
    {<<VariableDeclaration(TInt, "a"),
       FunctionDeclaration(TInt, "g", <<VariableDeclaration(TInt, "p")>>,
                           <<Return(VarAccess("p"))>>),
       st>> : st \in UNION {UseSites(e) : e \in UndefinedExprs \cup DefinedExprs}}

TIntList == NewTypeList("TTINT", TRUE)

\* The places of a function body that can hold a call
CallPlaces == {"ret", "init", "assign", "arg", "cond", "then", "else", "elseif", "loop", "binop"}

\* A function body with a call to c, without arguments, at place pl
BodyWithCall(c, pl) ==
    LET call == FunctionCall(c, NoArgs)
    IN  CASE pl = "ret" -> <<Return(call)>>
          [] pl = "init" -> <<VariableDeclarationInit(TInt, "v", call)>>
          [] pl = "assign" -> <<VariableDeclaration(TInt, "v"), AssignmentStatement("v", call)>>
          [] pl = "arg" -> <<Return(FunctionCall("id", <<call>>))>>
          [] pl = "cond" -> <<IfStatement(call, <<>>), Return(IntLit)>>
          [] pl = "then" -> <<IfStatement(Val(TBool), <<Return(call)>>)>>
          [] pl = "else" -> <<IfElseStatement(Val(TBool), <<>>, <<Return(call)>>)>>
          [] pl = "elseif" ->
                <<IfElseifStatement(Val(TBool), <<>>, IfStatement(IntLit, <<Return(call)>>))>>
          [] pl = "loop" ->
                <<VariableDeclaration(TIntList, "l"), LoopStatement("l", "v", <<Return(call)>>)>>
          [] pl = "binop" -> <<Return(BinaryOperator(IntLit, "arith", call))>>

\* def int name() { body }
IntFunction(name, body) == FunctionDeclaration(TInt, name, <<>>, body)

\* def int id(int x) { return x }
IdFunction ==
    FunctionDeclaration(TInt, "id", <<VariableDeclaration(TInt, "x")>>, <<Return(VarAccess("x"))>>)

\* The bodies of f: a call to f, g, h or the undeclared u at any place, or no call
BodiesOfF ==
    {BodyWithCall(c, pl) : c \in {"f", "g", "h"}, pl \in CallPlaces}
        \cup {BodyWithCall("u", "ret"), <<Return(IntLit)>>}

\* The bodies of g and of h
BodiesOfOthers ==
    {BodyWithCall(c, pl) : c \in {"f", "g", "h"}, pl \in {"ret", "cond"}}
        \cup {<<Return(IntLit)>>}

\* id, f, g and h, with f declared before or after g and h
CallGraphPrograms ==
    UNION {{<<IdFunction, IntFunction("f", bf), IntFunction("g", bg), IntFunction("h", bh)>>,
            <<IdFunction, IntFunction("g", bg), IntFunction("h", bh), IntFunction("f", bf)>>} :
               bf \in BodiesOfF, bg \in BodiesOfOthers, bh \in BodiesOfOthers}

\* A statement that passes and one that fails where a is declared and u is not
OkStatement == AssignmentStatement("a", IntLit)

BadStatement == AssignmentStatement("u", IntLit)

\* Statements that open scopes around the statements s1 and s2
Nestings(s1, s2) ==
    {IfStatement(Val(TBool), <<s1>>),
     IfElseStatement(Val(TBool), <<s1>>, <<s2>>),
     IfElseifStatement(Val(TBool), <<s1>>, IfStatement(IntLit, <<s2>>)),
     LoopStatement("l", "v", <<s1>>),
     LoopStatement("l", "v", <<IfStatement(VarAccess("v"), <<s1>>), s2>>),
     LoopStatement("a", "v", <<s1>>),
     LoopStatement("u", "v", <<s1>>),
     FunctionDeclaration(TInt, "f", <<VariableDeclaration(TInt, "p")>>, <<s1, s2>>),
     FunctionDeclaration(TInt, "f",
                         <<VariableDeclaration(TInt, "p"), VariableDeclaration(TBool, "p")>>,
                         <<s1>>),
     FunctionDeclaration(TInt, "f", <<VariableDeclaration(TIntList, "q")>>,
                         <<LoopStatement("q", "w", <<s1>>), IfStatement(IntLit, <<s2>>)>>)}

\* int a, int l[], a nesting and a last statement
ScopePrograms ==
    {<<VariableDeclaration(TInt, "a"), VariableDeclaration(TIntList, "l"), n, s3>> :
         n \in UNION {Nestings(s1, s2) : s1 \in {OkStatement, BadStatement},
                                         s2 \in {OkStatement, BadStatement}},
         s3 \in {OkStatement, BadStatement}}

\* Binary operations on the scalar a and the list l, in either order
MixedExprs ==
    {BinaryOperator(VarAccess(x), o, VarAccess(y)) :
        o \in {"cmp", "arith"}, x \in {"a", "l"}, y \in {"a", "l"}}

\* int a, int l[], then a statement holding a binary operation on them
MixedPrograms ==
    {<<VariableDeclaration(TInt, "a"), VariableDeclaration(TIntList, "l"), st>> :
        st \in UNION {UseSites(e) : e \in MixedExprs}}

\* value : TSTRING { $$ = new NString(str); $$->type = *(new Type(TTSTR)); }
StringLit == Val(NewType("TTSTR"))

\* T a, then an if on a; and an if on a string literal
CondPrograms ==
    {<<VariableDeclaration(T, "a"), IfStatement(VarAccess("a"), <<>>)>> : T \in DeclTypes}
        \cup {<<VariableDeclaration(TInt, "a"), IfStatement(StringLit, <<>>)>>}

\* T a, S b = a, return b at top level
InitReturnProgram(T, S) ==
    <<VariableDeclaration(T, "a"), VariableDeclarationInit(S, "b", VarAccess("a")),
      Return(VarAccess("b"))>>

InitReturnPrograms == {InitReturnProgram(T, S) : T \in DeclTypes, S \in DeclTypes}

Programs ==
    TypedPrograms \cup UseSitePrograms \cup CallGraphPrograms \cup ScopePrograms
        \cup MixedPrograms \cup CondPrograms \cup InitReturnPrograms

----------------------------------------------------------------------------
(* The driver: crema.cpp main, and NBlock::semanticAnalysis on the root block *)

Ctx == MkCtx(vars, currType, currScope, funcs)

SetCtx(c) ==
    /\ vars' = c.vars
    /\ currType' = c.currType
    /\ currScope' = c.currScope
    /\ funcs' = c.funcs

NoTy == Ty("INVALID", FALSE)

NoCmp == [eq |-> FALSE, neq |-> FALSE, gt |-> FALSE, ge |-> FALSE, lt |-> FALSE, le |-> FALSE,
          gtBack |-> FALSE, geBack |-> FALSE, leBack |-> FALSE]

\* No CodeGenContext has been constructed
NoContext == [blocks |-> <<>>, variables |-> <<>>, insert |-> 0, bbs |-> <<>>, values |-> <<>>]

\* No list has been created
NoList == [cap |-> 0, len |-> 0, elem_sz |-> 0, arr |-> [null |-> TRUE, mem |-> <<>>]]

\* No foreach is running
NoLoop ==
    [list |-> <<>>, loopItCnter |-> 0, asVar |-> 0, executed |-> <<>>, compared |-> 0,
     body |-> "read"]

NoLast == [op |-> "none", res |-> "none", at |-> 0, ident |-> ""]

\* After yyparse(): the root block, the functions registered, the root scope
Init ==
    /\ prog \in Programs
    /\ funcs = ParserFuncs(prog, 1, RootCtx(<<>>))
    /\ vars = RootCtx(funcs).vars
    /\ currType = RootCtx(funcs).currType
    /\ currScope = RootCtx(funcs).currScope
    /\ pc = "parsed"
    /\ idx = 0
    /\ last = NoLast
    /\ status = 0
    /\ emitted = NoLoop
    /\ list = NoList
    /\ context = NoContext
    /\ tyA = NoTy /\ tyB = NoTy /\ cmp = NoCmp

\* generateFuncDecl(type, name, args): new NFunctionDeclaration(type, *ident, args, NULL)
generateFuncDecl(type, name, args) ==
    [FunctionDeclaration(type, name, args, <<>>) EXCEPT !.hasBody = FALSE]

\* The calls of NBlock::createStdlib in order: the declaration it inserts at
\* statements.begin() and the declaration func points at when
\* rootCtx.registerFunc(func) follows.  Type(CHAR, true) hands setType a TypeCodes
\* value, which no case of its switch on type tokens matches, so that typecode is
\* never written: it is kept as Uninitialised, a value that no step reads (the
\* analysis does not get past the first declaration injected, whose body is NULL).
Uninitialised == "UNINITIALISED"

StdlibCalls ==
    LET ct == Ty("CHAR", FALSE)
        int == NewType("TTINT")
        intList == NewTypeList("TTINT", TRUE)
        double == NewType("TTDOUBLE")
        doubleList == NewTypeList("TTDOUBLE", TRUE)
        void == NewType("TTVOID")
        P(t, n) == VariableDeclaration(t, n)
        own(d) == <<d, d>>
        strCreate == generateFuncDecl(Ty("CHAR", TRUE), "str_create", <<>>)
        lArgs == <<P(intList, "l")>>
        liArgs == <<P(intList, "l"), P(int, "idx")>>
        livArgs == <<P(intList, "l"), P(int, "idx"), P(int, "val")>>
    IN  << own(generateFuncDecl(intList, "int_list_create", <<>>)),
           own(generateFuncDecl(doubleList, "double_list_create", <<>>)),
           own(strCreate),
           <<generateFuncDecl(int, "list_length", lArgs), strCreate>>,
           <<generateFuncDecl(int, "int_list_retrieve", liArgs), strCreate>>,
           <<generateFuncDecl(NewType("TTCHAR"), "str_retrieve", liArgs), strCreate>>,
           <<generateFuncDecl(double, "double_list_retrieve", liArgs), strCreate>>,
           own(generateFuncDecl(void, "int_list_append", liArgs)),
           own(generateFuncDecl(void, "int_list_insert", livArgs)),
           own(generateFuncDecl(void, "double_list_append",
                                <<P(doubleList, "l"), P(double, "val")>>)),
           own(generateFuncDecl(void, "double_list_insert",
                                <<P(doubleList, "l"), P(int, "idx"), P(double, "val")>>)),
           own(generateFuncDecl(void, "str_print", lArgs)),
           own(generateFuncDecl(void, "str_println", lArgs)),
           own(generateFuncDecl(void, "str_append", <<P(intList, "l"), P(ct, "val")>>)),
           own(generateFuncDecl(void, "print_int", <<P(int, "val")>>)),
           own(generateFuncDecl(void, "str_insert",
                                <<P(Ty(Uninitialised, TRUE), "l"), P(int, "idx"), P(ct, "val")>>)),
           own(generateFuncDecl(NewTypeList("TTCHAR", TRUE), "prog_argument",
                                <<P(int, "idx")>>)),
           own(generateFuncDecl(int, "prog_arg_count", <<>>)),
           own(generateFuncDecl(intList, "crema_seq", <<P(int, "start"), P(int, "end")>>)) >>

\* void NBlock::createStdlib(), from call i on: the statements and the context
RECURSIVE createStdlib(_, _, _, _)
createStdlib(calls, i, statements, ctx) ==
    IF i > Len(calls) THEN [statements |-> statements, ctx |-> ctx]
    ELSE createStdlib(calls, i + 1, <<calls[i][1]>> \o statements,
                      registerFunc(ctx, calls[i][2]).ctx)

\* rootBlock->createStdlib() on the parsed program
CreateStdlib ==
    /\ pc = "parsed"
    /\ LET r == createStdlib(StdlibCalls, 1, prog, Ctx)
       IN  /\ prog' = r.statements
           /\ SetCtx(r.ctx)
    /\ pc' = "injected"
    /\ last' = [op |-> "createStdlib", res |-> "none", at |-> 0, ident |-> ""]
    /\ UNCHANGED <<context, list, emitted, status, idx, tyA, tyB, cmp>>

\* rootBlock->semanticAnalysis(&rootCtx) is entered: ctx->newScope(ctx->currType.back())
BlockEnter ==
    /\ pc \in {"parsed", "injected"}
    /\ SetCtx(newScope(Ctx, currType[Len(currType)]))
    /\ pc' = "statements"
    /\ idx' = 1
    /\ last' = [op |-> "newScope", res |-> "none", at |-> 0, ident |-> ""]
    /\ UNCHANGED <<context, list, emitted, status, prog, tyA, tyB, cmp>>

\* The loop of NBlock::semanticAnalysis on the root block is at a statement of
\* class kind
AtStatement(kind) ==
    /\ pc = "statements"
    /\ idx <= Len(prog)
    /\ prog[idx].k = kind

\* One turn of that loop: the statement's semanticAnalysis, and the return false
\* (without delScope) on its failure, on which main returns -1
AnalyzeRoot ==
    /\ \E o \in StatementSA(prog[idx], Ctx) :
          /\ SetCtx(o.ctx)
          /\ last' = [op |-> prog[idx].k, res |-> o.res, at |-> idx, ident |-> ""]
          /\ IF o.res = "true"
             THEN pc' = pc /\ idx' = idx + 1
             ELSE pc' = (IF o.res = "false" THEN "failed" ELSE o.res) /\ idx' = idx
    /\ UNCHANGED <<context, list, emitted, status, prog, tyA, tyB, cmp>>

AnalyzeVariableDeclaration ==
    /\ AtStatement("vardecl")
    /\ AnalyzeRoot

AnalyzeAssignmentStatement ==
    /\ AtStatement("assign")
    /\ AnalyzeRoot

AnalyzeReturn ==
    /\ AtStatement("return")
    /\ AnalyzeRoot

AnalyzeIfStatement ==
    /\ AtStatement("if")
    /\ AnalyzeRoot

AnalyzeLoopStatement ==
    /\ AtStatement("loop")
    /\ AnalyzeRoot

AnalyzeFunctionDeclaration ==
    /\ AtStatement("funcdecl")
    /\ AnalyzeRoot

\* The loop of NBlock::semanticAnalysis on the root block ends: ctx->delScope(),
\* return true, and main prints "Passed semantic analysis!"
BlockExit ==
    /\ pc = "statements"
    /\ idx > Len(prog)
    /\ SetCtx(delScope(Ctx))
    /\ pc' = "passed"
    /\ idx' = idx
    /\ last' = [op |-> "delScope", res |-> "true", at |-> 0, ident |-> ""]
    /\ UNCHANGED <<context, list, emitted, status, prog, tyA, tyB, cmp>>

\* rootBlock->semanticAnalysis(&rootCtx) once more, on the AST and the context
\* that a run which returned true has left
AnalyzeAgain ==
    /\ pc = "passed"
    /\ \E o \in BlockSA(prog, Ctx) :
          /\ SetCtx(o.ctx)
          /\ last' = [op |-> "again", res |-> o.res, at |-> 0, ident |-> ""]
    /\ pc' = "reanalysed"
    /\ UNCHANGED <<context, list, emitted, status, prog, idx, tyA, tyB, cmp>>

\* The status the shell sees when main returns ret: its low eight bits
ExitStatus(ret) == ret % 256

\* main goes on to code generation although the analysis failed
MainIgnoresFailure ==
    /\ pc = "failed"
    /\ pc' = "codegen"
    /\ UNCHANGED <<context, list, emitted, status, prog, funcs, vars, currType, currScope, idx, last, tyA, tyB, cmp>>

\* main, rootBlock->semanticAnalysis(&rootCtx) was false: "Failed semantic
\* analysis!" and return -1
MainReturnsFailure ==
    /\ pc = "failed"
    /\ pc' = "exited"
    /\ status' = ExitStatus(-1)
    /\ UNCHANGED <<context, list, emitted, prog, funcs, vars, currType, currScope, idx, last, tyA, tyB, cmp>>

\* main with -s, after "Passed semantic analysis!": return 0
MainSemanticOnly ==
    /\ pc = "passed"
    /\ pc' = "exited"
    /\ status' = ExitStatus(0)
    /\ UNCHANGED <<context, list, emitted, prog, funcs, vars, currType, currScope, idx, last, tyA, tyB, cmp>>

\* main without -s, after "Passed semantic analysis!":
\* rootCodeGenCtx.codeGen(rootBlock)
MainCodeGen ==
    /\ pc = "passed"
    /\ pc' = "codegen"
    /\ UNCHANGED <<context, list, emitted, status, prog, funcs, vars, currType, currScope, idx, last, tyA, tyB, cmp>>

\* main after code generation and the dump of the module: return 0
MainReturns ==
    /\ pc = "codegen"
    /\ pc' = "exited"
    /\ status' = ExitStatus(0)
    /\ UNCHANGED <<context, list, emitted, prog, funcs, vars, currType, currScope, idx, last, tyA, tyB, cmp>>

\* run_tests.sh, the loop over fail/: the verdict on a test from the status of
\* cremacc
FailureTest(st) == IF st # 0 THEN "passed!" ELSE "failed!"

Next ==
    \/ CreateStdlib
    \/ BlockEnter
    \/ AnalyzeVariableDeclaration
    \/ AnalyzeAssignmentStatement
    \/ AnalyzeReturn
    \/ AnalyzeIfStatement
    \/ AnalyzeLoopStatement
    \/ AnalyzeFunctionDeclaration
    \/ BlockExit
    \/ AnalyzeAgain
    \/ MainReturnsFailure
    \/ MainSemanticOnly
    \/ MainCodeGen
    \/ MainReturns

Spec == Init /\ [][Next]_allvars

----------------------------------------------------------------------------
(* The comparison operators of types.cpp applied to every pair of Types *)

TypesInit ==
    /\ tyA \in Types \cup StructTypes
    /\ tyB \in Types \cup StructTypes
    /\ cmp = NoCmp
    /\ pc = "compare"
    /\ prog = <<>>
    /\ funcs = <<>>
    /\ vars = RootCtx(<<>>).vars
    /\ currType = RootCtx(<<>>).currType
    /\ currScope = 0
    /\ idx = 0
    /\ last = NoLast
    /\ status = 0
    /\ emitted = NoLoop
    /\ list = NoList
    /\ context = NoContext

\* t1 == t2, t1 != t2, t1 > t2, t1 >= t2, t1 < t2, t1 <= t2 on (tyA, tyB), and
\* t1 > t2, t1 >= t2, t1 <= t2 on (tyB, tyA)
Compare ==
    /\ pc = "compare"
    /\ cmp' = [eq |-> TypeEq(tyA, tyB), neq |-> TypeNeq(tyA, tyB),
               gt |-> TypeGt(tyA, tyB), ge |-> TypeGe(tyA, tyB),
               lt |-> TypeLt(tyA, tyB), le |-> TypeLe(tyA, tyB),
               gtBack |-> TypeGt(tyB, tyA), geBack |-> TypeGe(tyB, tyA),
               leBack |-> TypeLe(tyB, tyA)]
    /\ pc' = "compared"
    /\ UNCHANGED <<context, list, emitted, status, tyA, tyB, prog, funcs, vars, currType, currScope, idx, last>>

\* llvm::Value * convertToType(llvm::Value * val, NExpression * expr, Type & type,
\* CodeGenContext & context), for expr->type = exprType: what it returns, the
\* value unchanged ("val"), an sitofp instruction or CodeGenError ("error")
convertToType(exprType, type) ==
    IF TypeEq(exprType, type) THEN "val"
    ELSE IF exprType.typecode = "INT" /\ type.typecode = "DOUBLE" THEN "sitofp"
    ELSE "error"

\* convertToType(val, expr, type, context) with expr->type = tyA and type = tyB
Convert ==
    /\ pc = "compared"
    /\ pc' = "converted"
    /\ last' = [op |-> "convertToType", res |-> convertToType(tyA, tyB), at |-> 0, ident |-> ""]
    /\ UNCHANGED <<context, list, emitted, status, tyA, tyB, cmp, prog, funcs, vars, currType, currScope, idx>>

TypesNext == Compare \/ Convert

SpecTypes == TypesInit /\ [][TypesNext]_allvars

----------------------------------------------------------------------------
(* The SemanticContext driven through its interface: any sequence of          *)
(* registerVar, registerFunc, newScope and delScope.                          *)

\* Largest number of scopes pushed above the root scope
MaxScopes == 2

CtxNames == {"x", "y"}

CtxTypes == {TInt, TBool}

CtxInit ==
    /\ funcs = <<>>
    /\ vars = RootCtx(<<>>).vars
    /\ currType = RootCtx(<<>>).currType
    /\ currScope = RootCtx(<<>>).currScope
    /\ pc = "context"
    /\ prog = <<>>
    /\ idx = 0
    /\ last = NoLast
    /\ status = 0
    /\ emitted = NoLoop
    /\ list = NoList
    /\ context = NoContext
    /\ tyA = NoTy /\ tyB = NoTy /\ cmp = NoCmp

\* ctx->registerVar(new NVariableDeclaration(t, n))
CtxRegisterVar ==
    /\ pc = "context"
    /\ \E n \in CtxNames, t \in CtxTypes :
          LET r == registerVar(Ctx, [ident |-> n, type |-> t])
          IN  /\ SetCtx(r.ctx)
              /\ last' = [op |-> "registerVar", res |-> OfBool(r.ok), at |-> 0, ident |-> n]
    /\ UNCHANGED <<context, list, emitted, status, prog, pc, idx, tyA, tyB, cmp>>

\* ctx->registerFunc(new NFunctionDeclaration(int, n, (), {}))
CtxRegisterFunc ==
    /\ pc = "context"
    /\ \E n \in CtxNames :
          LET r == registerFunc(Ctx, IntFunction(n, <<>>))
          IN  /\ SetCtx(r.ctx)
              /\ last' = [op |-> "registerFunc", res |-> OfBool(r.ok), at |-> 0, ident |-> n]
    /\ UNCHANGED <<context, list, emitted, status, prog, pc, idx, tyA, tyB, cmp>>

\* ctx->newScope(ctx->currType.back())
CtxNewScope ==
    /\ pc = "context"
    /\ Len(vars) <= MaxScopes
    /\ SetCtx(newScope(Ctx, currType[Len(currType)]))
    /\ last' = [op |-> "newScope", res |-> "none", at |-> 0, ident |-> ""]
    /\ UNCHANGED <<context, list, emitted, status, prog, pc, idx, tyA, tyB, cmp>>

\* ctx->delScope(), which every caller pairs with a newScope of its own: the
\* root scope of the constructor stays
CtxDelScope ==
    /\ pc = "context"
    /\ Len(vars) > 1
    /\ SetCtx(delScope(Ctx))
    /\ last' = [op |-> "delScope", res |-> "none", at |-> 0, ident |-> ""]
    /\ UNCHANGED <<context, list, emitted, status, prog, pc, idx, tyA, tyB, cmp>>

CtxNext ==
    \/ CtxRegisterVar
    \/ CtxRegisterFunc
    \/ CtxNewScope
    \/ CtxDelScope

SpecCtx == CtxInit /\ [][CtxNext]_allvars

----------------------------------------------------------------------------
(* The list routines of stdlib.h.  A list_t is the record of its fields; arr   *)
(* is NULL or a buffer of slots, a slot holding a value or nothing yet.  A     *)
(* pointer to an element is its position in the buffer.  realloc succeeds.     *)

DEFAULT_RESIZE_AMT == 3

NULL == 0

NullArr == [null |-> TRUE, mem |-> <<>>]

Slot(v) == [init |-> TRUE, v |-> v]

Garbage == [init |-> FALSE, v |-> 0]

\* realloc(arr, n * elem_sz): n slots, the old contents kept as far as they fit
realloc(arr, n) ==
    [null |-> FALSE,
     mem |-> [i \in 1..n |-> IF i <= Len(arr.mem) THEN arr.mem[i] ELSE Garbage]]

\* list_t * list_create(int64_t es)
list_create(es) == [cap |-> 0, len |-> 0, elem_sz |-> es, arr |-> NullArr]

str_create == list_create(1)

int_list_create == list_create(8)

double_list_create == list_create(8)

\* static void list_resize(list_t * list, size_t new_sz)
list_resize(l, new_sz) ==
    IF new_sz > l.len
    THEN [l EXCEPT !.arr = realloc(l.arr, new_sz), !.cap = new_sz]
    ELSE l

\* int64_t list_length(list_t * list)
list_length(l) == l.len

\* A write of elem to arr + i * elem_sz lands in the buffer
InBuffer(l, i) == ~l.arr.null /\ i >= 0 /\ i < Len(l.arr.mem)

\* void list_insert(list_t * list, unsigned int idx, void * elem)
list_insert(l, i, elem) ==
    IF i < l.len /\ InBuffer(l, i) THEN [l EXCEPT !.arr.mem[i + 1] = elem] ELSE l

\* A negative int64_t passed for an unsigned int becomes a value of 2^31 or
\* more; AboveInt32 stands for all of them
AboveInt32 == 2147483647

ToUnsignedInt(i) == IF i < 0 THEN AboveInt32 ELSE i

\* void * list_retrieve(list_t * list, unsigned int idx): the position of the
\* element, NULL when idx is not below the length
list_retrieve(l, i) == IF i >= l.len THEN NULL ELSE i + 1

\* void list_append(list_t * list, void * elem)
list_append(l, elem) ==
    LET r == IF l.len + 1 >= l.cap THEN list_resize(l, l.cap + DEFAULT_RESIZE_AMT) ELSE l
        g == [r EXCEPT !.len = @ + 1]
    IN  list_insert(g, g.len - 1, elem)

\* The loop of list_concat from element i of list2 on
RECURSIVE ConcatFrom(_, _, _)
ConcatFrom(l1, l2, i) ==
    IF i < l2.len
    THEN ConcatFrom(list_append(l1, l2.arr.mem[list_retrieve(l2, i)]), l2, i + 1)
    ELSE l1

\* void list_concat(list_t * list1, list_t * list2), on two different lists
list_concat(l1, l2) ==
    IF l1.elem_sz # l2.elem_sz THEN l1
    ELSE ConcatFrom(list_resize(l1, l1.cap + l2.len), l2, 0)

\* void list_delete(list_t * list, unsigned int idx): the memmove of the
\* len - idx - 1 elements behind idx, then len--
list_delete(l, i) ==
    IF i < l.len
    THEN [l EXCEPT !.len = @ - 1,
                   !.arr.mem = [j \in 1..Len(l.arr.mem) |->
                                   IF j >= i + 1 /\ j < l.len THEN l.arr.mem[j + 1]
                                   ELSE l.arr.mem[j]]]
    ELSE l

\* ((char *) str->arr)[str->len] = '\0': the list after the write when the write
\* lands in the buffer; otherwise it goes through NULL or past the allocation
Terminate(l) ==
    [defined |-> InBuffer(l, l.len),
     l |-> IF InBuffer(l, l.len) THEN [l EXCEPT !.arr.mem[l.len + 1] = Slot(0)] ELSE l]

\* void str_append(string_t * str, char elem)
str_append(str, elem) == Terminate(list_append(str, Slot(elem)))

\* void str_concat(string_t * str1, string_t * str2)
str_concat(str1, str2) == Terminate(list_concat(str1, str2))

\* void str_delete(string_t * str, unsigned int idx)
str_delete(str, i) == Terminate(list_delete(str, i))

\* The result of a retrieve routine: exit(-1) after the message on stderr, the
\* value read, or a read through the NULL pointer
Exits == [exit |-> TRUE, fault |-> FALSE, val |-> 0]

Returns(v) == [exit |-> FALSE, fault |-> FALSE, val |-> v]

ReadsNull == [exit |-> FALSE, fault |-> TRUE, val |-> 0]

\* int64_t int_list_retrieve(list_t * list, int64_t idx)
int_list_retrieve(l, i) ==
    LET p == list_retrieve(l, ToUnsignedInt(i))
    IN  IF p = NULL THEN Exits ELSE Returns(l.arr.mem[p].v)

\* char str_retrieve(string_t * str, unsigned int idx)
str_retrieve(str, i) ==
    LET p == list_retrieve(str, i)
    IN  IF p = NULL THEN Exits ELSE Returns(str.arr.mem[p].v)

\* double double_list_retrieve(list_t * list, unsigned int idx)
double_list_retrieve(l, i) ==
    LET p == list_retrieve(l, i)
    IN  IF p # NULL THEN Exits ELSE ReadsNull

\* int_list_append(l, e) for each e of elems from position i on
RECURSIVE AppendAll(_, _, _)
AppendAll(l, elems, i) ==
    IF i > Len(elems) THEN l ELSE AppendAll(list_append(l, Slot(elems[i])), elems, i + 1)

\* The elements of a list, in order
Contents(l) == [i \in 1..l.len |-> l.arr.mem[i].v]

----------------------------------------------------------------------------
(* A program calling the list routines on one list, a string or a list of      *)
(* 8-byte elements, in any order                                               *)

MaxStrLen == 2
Chars == {1, 2}

RECURSIVE StringsUpTo(_)
StringsUpTo(n) ==
    IF n = 0 THEN {<<>>}
    ELSE LET shorter == StringsUpTo(n - 1)
         IN  shorter \cup {Append(l, e) : l \in {s \in shorter : Len(s) = n - 1}, e \in Chars}

\* The capacity up to which list_concat is followed
MaxCap == MaxStrLen + 2 * DEFAULT_RESIZE_AMT

\* The second operand of a concat: a list of the same element size holding elems
Operand(es, elems) == AppendAll(list_create(es), elems, 1)

\* Indexes handed to the routines: in range, just past the end, and negative
Indexes == -1..MaxStrLen

\* list_t * crema_seq(int64_t start, int64_t end)
crema_seq(start, end) ==
    IF end <= start THEN [null |-> TRUE, l |-> NoList]
    ELSE [null |-> FALSE,
          l |-> AppendAll(list_resize(int_list_create, end - start),
                          [i \in 1..(end - start + 1) |-> start + i - 1], 1)]

SeqRange == -1..2

ListInit ==
    /\ list \in {str_create, int_list_create}
    /\ context = NoContext
    /\ pc = "running"
    /\ last = NoLast
    /\ status = 0
    /\ emitted = NoLoop
    /\ prog = <<>>
    /\ funcs = <<>>
    /\ vars = RootCtx(<<>>).vars
    /\ currType = RootCtx(<<>>).currType
    /\ currScope = RootCtx(<<>>).currScope
    /\ idx = 1
    /\ tyA = NoTy
    /\ tyB = NoTy
    /\ cmp = NoCmp

ListFrame == UNCHANGED <<context, emitted, prog, funcs, vars, currType, currScope, idx, tyA, tyB, cmp>>

\* A call of a list_* routine that leaves newList
ListCall(op, newList) ==
    /\ list' = newList
    /\ last' = [op |-> op, res |-> "none", at |-> 0, ident |-> ""]
    /\ UNCHANGED <<context, pc, status>>
    /\ ListFrame

\* A call of a str_* routine: the list as the list_* routine left it, then the
\* write of the terminator at index len, which may not land in the buffer
StrCall(op, inner) ==
    LET t == Terminate(inner)
    IN  /\ list' = t.l
        /\ last' = [op |-> op, res |-> "none", at |-> 0, ident |-> "",
                    allocated |-> ~inner.arr.null, len |-> inner.len, cap |-> inner.cap]
        /\ IF t.defined THEN pc' = pc ELSE pc' \in {"fault", "running"}
        /\ UNCHANGED status
        /\ ListFrame

ListAppend ==
    /\ pc = "running"
    /\ list.len < MaxStrLen
    /\ \E e \in Chars : ListCall("list_append", list_append(list, Slot(e)))

ListConcat ==
    /\ pc = "running"
    /\ \E elems \in StringsUpTo(MaxStrLen) :
          /\ list.len + Len(elems) <= MaxStrLen
          /\ list.cap + Len(elems) <= MaxCap
          /\ ListCall("list_concat", list_concat(list, Operand(list.elem_sz, elems)))

ListDelete ==
    /\ pc = "running"
    /\ \E i \in Indexes : ListCall("list_delete", list_delete(list, ToUnsignedInt(i)))

StrAppend ==
    /\ pc = "running"
    /\ list.elem_sz = 1
    /\ list.len < MaxStrLen
    /\ \E e \in Chars : StrCall("str_append", list_append(list, Slot(e)))

StrConcat ==
    /\ pc = "running"
    /\ list.elem_sz = 1
    /\ \E elems \in StringsUpTo(MaxStrLen) :
          /\ list.len + Len(elems) <= MaxStrLen
          /\ list.cap + Len(elems) <= MaxCap
          /\ StrCall("str_concat", list_concat(list, Operand(1, elems)))

StrDelete ==
    /\ pc = "running"
    /\ list.elem_sz = 1
    /\ \E i \in Indexes : StrCall("str_delete", list_delete(list, ToUnsignedInt(i)))

\* A call of a retrieve routine with index i: it returns, ends the program with
\* exit(-1), or reads through NULL, after which anything may have been read
Retrieve(op, i, r) ==
    /\ \E got \in (IF r.fault THEN {ReadsNull} \cup {Returns(v) : v \in Chars \cup {0}}
                   ELSE {r}) :
          /\ last' = [op |-> op, res |-> got, at |-> i, ident |-> ""]
          /\ pc' = IF got.exit THEN "exited" ELSE IF got.fault THEN "fault" ELSE pc
          /\ status' = IF got.exit THEN ExitStatus(-1) ELSE status
    /\ UNCHANGED list
    /\ ListFrame

IntListRetrieve ==
    /\ pc = "running"
    /\ list.elem_sz = 8
    /\ \E i \in Indexes : Retrieve("int_list_retrieve", i, int_list_retrieve(list, i))

DoubleListRetrieve ==
    /\ pc = "running"
    /\ list.elem_sz = 8
    /\ \E i \in Indexes :
          Retrieve("double_list_retrieve", i, double_list_retrieve(list, ToUnsignedInt(i)))

StrRetrieve ==
    /\ pc = "running"
    /\ list.elem_sz = 1
    /\ \E i \in Indexes : Retrieve("str_retrieve", i, str_retrieve(list, ToUnsignedInt(i)))

CremaSeq ==
    /\ pc = "running"
    /\ \E start \in SeqRange, end \in SeqRange :
          last' = [op |-> "crema_seq", res |-> crema_seq(start, end), at |-> start,
                   ident |-> "", end |-> end]
    /\ UNCHANGED <<context, list, pc, status>>
    /\ ListFrame

ListNext ==
    \/ ListAppend
    \/ ListConcat
    \/ ListDelete
    \/ StrAppend
    \/ StrConcat
    \/ StrDelete
    \/ IntListRetrieve
    \/ DoubleListRetrieve
    \/ StrRetrieve
    \/ CremaSeq

SpecList == ListInit /\ [][ListNext]_allvars

----------------------------------------------------------------------------
(* The code NLoopStatement::codeGen emits for  foreach (list as asVar) { .. }   *)
(* over an int list, run against the list routines of stdlib.h.  The loop body *)
(* reads asVar and either leaves the list alone or appends asVar to it.        *)

MaxListLen == 3
Elems == {1, 2, 3}

RECURSIVE ListsUpTo(_)
ListsUpTo(n) ==
    IF n = 0 THEN {<<>>}
    ELSE LET shorter == ListsUpTo(n - 1)
         IN  shorter \cup {Append(l, e) : l \in {s \in shorter : Len(s) = n - 1}, e \in Elems}

\* int l[]  (int_list_create)  or  int l[] = [e1, .., en]  (create, then appends)
IntLists == {AppendAll(int_list_create, elems, 1) : elems \in ListsUpTo(MaxListLen)}

\* What the loop body does: it reads asVar, or it calls int_list_append(list, asVar)
Bodies == {"read", "append"}

\* The number of executions of the body up to which a run is followed; no list
\* of IntLists is that long
MaxIterations == 2 * MaxListLen + 2

LoopInit ==
    /\ list = NoList
    /\ context = NoContext
    /\ emitted \in {[list |-> l, loopItCnter |-> Uninitialised, asVar |-> Uninitialised,
                     executed |-> <<>>, compared |-> 0, body |-> b] :
                        l \in IntLists, b \in Bodies}
    /\ pc = "preblock"
    /\ status = 0
    /\ prog = <<>>
    /\ funcs = <<>>
    /\ vars = RootCtx(<<>>).vars
    /\ currType = RootCtx(<<>>).currType
    /\ currScope = RootCtx(<<>>).currScope
    /\ idx = 1
    /\ last = NoLast
    /\ tyA = NoTy
    /\ tyB = NoTy
    /\ cmp = NoCmp

\* preblock: loopItCnter = 0, the loop variable is allocated, br bodyblock
PreBlock ==
    /\ pc = "preblock"
    /\ emitted' = [emitted EXCEPT !.loopItCnter = 0]
    /\ pc' = "bodyblock"
    /\ UNCHANGED <<context, list, status, prog, funcs, vars, currType, currScope, idx, last, tyA, tyB, cmp>>

\* head of bodyblock: asVar = list[loopItCnter]
BodyListAccess ==
    /\ pc = "bodyblock"
    /\ LET v == int_list_retrieve(emitted.list, emitted.loopItCnter)
       IN  IF v.exit
           THEN /\ pc' = "exited"
                /\ status' = ExitStatus(-1)
                /\ UNCHANGED emitted
           ELSE /\ pc' = "loopBlock"
                /\ emitted' = [emitted EXCEPT !.asVar = v.val]
                /\ UNCHANGED status
    /\ UNCHANGED <<context, list, prog, funcs, vars, currType, currScope, idx, last, tyA, tyB, cmp>>

\* the statements of loopBlock, executed once with asVar bound
LoopBlock ==
    /\ pc = "loopBlock"
    /\ IF Len(emitted.executed) >= MaxIterations
       THEN pc' = "unbounded" /\ UNCHANGED emitted
       ELSE /\ emitted' = [emitted EXCEPT
                              !.executed = Append(@, emitted.asVar),
                              !.list = IF emitted.body = "append"
                                       THEN list_append(@, Slot(emitted.asVar))
                                       ELSE @]
            /\ pc' = "increment"
    /\ UNCHANGED <<context, list, status, prog, funcs, vars, currType, currScope, idx, last, tyA, tyB, cmp>>

\* tail of bodyblock: loopItCnter = 1 + loopItCnter,
\* br (loopItCnter == list_length(list)) ? termblock : bodyblock
TerminationCheck ==
    /\ pc = "increment"
    /\ LET newValue == 1 + emitted.loopItCnter
           cond == (newValue = list_length(emitted.list))
       IN  /\ emitted' = [emitted EXCEPT !.loopItCnter = newValue, !.compared = @ + 1]
           /\ pc' = IF cond THEN "termblock" ELSE "bodyblock"
    /\ UNCHANGED <<context, list, status, prog, funcs, vars, currType, currScope, idx, last, tyA, tyB, cmp>>

LoopNext ==
    \/ PreBlock
    \/ BodyListAccess
    \/ LoopBlock
    \/ TerminationCheck

SpecLoop == LoopInit /\ [][LoopNext]_allvars

----------------------------------------------------------------------------
(* The emitter: codegen.cpp.  A CodeGenContext is the record of its stack of   *)
(* basic blocks, its vector of scopes and the insertion block of its Builder,  *)
(* with the basic blocks of the module (bbs) and the storage created for       *)
(* variables (values).  A block or a storage is named by its position in bbs   *)
(* or values; 0 is the NULL pointer.                                           *)

\* An instruction: its opcode, the storage it reads or writes or the function it
\* calls, and the blocks a branch goes to
Inst(op, var, t, f) == [op |-> op, var |-> var, t |-> t, f |-> f]

Terminators == {"br", "condbr", "ret"}

\* context.blocks.top()
Top(g) == g.blocks[Len(g.blocks)]

\* context.blocks.push(bb)
Push(g, bb) == [g EXCEPT !.blocks = Append(@, bb)]

\* context.blocks.pop()
Pop(g) == [g EXCEPT !.blocks = SubSeq(@, 1, Len(@) - 1)]

\* llvm::BasicBlock::Create(ctx, name, parent); the block is the last of bbs.
\* parent is "" for a block created outside every function
CreateBlock(g, name, parent) ==
    [g EXCEPT !.bbs = Append(@, [name |-> name, parent |-> parent, insts |-> <<>>])]

\* parent->getBasicBlockList().push_back(bb)
PushBack(g, bb, parent) == [g EXCEPT !.bbs[bb].parent = parent]

\* The value of x handed to F: x is computed once, however often F reads it
WithValue(x, F(_)) == CHOOSE r \in {F(y) : y \in {x}} : TRUE

\* An instruction created with insertAtEnd = bb
EmitAt(g, bb, inst) == [g EXCEPT !.bbs[bb].insts = Append(@, inst)]

\* An instruction created with insertAtEnd = context.blocks.top()
Emit(g, inst) == WithValue(g, LAMBDA x : EmitAt(x, Top(x), inst))

\* context.variables.push_back(new map)
PushScope(g) == [g EXCEPT !.variables = Append(@, {})]

\* context.variables.pop_back()
PopScope(g) == [g EXCEPT !.variables = SubSeq(@, 1, Len(@) - 1)]

\* llvm::Value * CodeGenContext::findVariable(std::string ident), from scope i
\* outwards
RECURSIVE findVariableFrom(_, _, _)
findVariableFrom(g, ident, i) ==
    IF i = 0 THEN NULL
    ELSE IF \E b \in g.variables[i] : b.ident = ident
         THEN (CHOOSE b \in g.variables[i] : b.ident = ident).value
         ELSE findVariableFrom(g, ident, i - 1)

findVariable(g, ident) == findVariableFrom(g, ident, Len(g.variables))

\* void CodeGenContext::addVariable(NVariableDeclaration * var, llvm::Value * value)
BindIn(g, ident, value) ==
    [g EXCEPT !.variables[Len(g.variables)] =
                  {b \in @ : b.ident # ident} \cup {[ident |-> ident, value |-> value]}]

addVariable(g, ident, value) == WithValue(g, LAMBDA x : BindIn(x, ident, value))

\* The code of an expression of the programs emitted: a literal, a variable
\* access, a call
RECURSIVE ExpressionCodeGen(_, _)
RECURSIVE ArgsCodeGen(_, _, _)
ExpressionCodeGen(e, g) ==
    CASE e.k = "val" -> g
      [] e.k = "var" ->
            WithValue(g, LAMBDA x : Emit(x, Inst("load", findVariable(x, e.ident), 0, 0)))
      [] e.k = "call" -> Emit(ArgsCodeGen(e.args, 1, g), Inst("call", e.ident, 0, 0))

ArgsCodeGen(args, i, g) ==
    IF i > Len(args) THEN g ELSE ArgsCodeGen(args, i + 1, ExpressionCodeGen(args[i], g))

\* llvm::Value * NAssignmentStatement::codeGen(CodeGenContext & context)
AssignmentStatementCodeGen(s, g) ==
    WithValue(ExpressionCodeGen(s.expr, g),
              LAMBDA x : Emit(x, Inst("store", findVariable(x, s.ident), 0, 0)))

\* NVariableDeclaration::codeGen once g is known: the storage is the next of values
DeclareIn(s, origin, g) ==
    LET a == Len(g.values) + 1
        inMain == g.bbs[Top(g)].parent = "main"
        g1 == [g EXCEPT !.values = Append(@, [ident |-> s.ident, origin |-> origin,
                                               global |-> inMain])]
        g2 == IF inMain THEN g1 ELSE Emit(g1, Inst("alloca", a, 0, 0))
        g3 == IF s.type.isList /\ ~s.hasInit
              THEN Emit(Emit(g2, Inst("call", "int_list_create", 0, 0)),
                        Inst("store", a, 0, 0))
              ELSE g2
        g4 == addVariable(g3, s.ident, a)
    IN  IF s.hasInit THEN AssignmentStatementCodeGen(AssignmentStatement(s.ident, s.init), g4)
        ELSE g4

\* llvm::Value * NVariableDeclaration::codeGen(CodeGenContext & context); origin
\* tells a declaration of the program from the loop variable and the counter
\* that NLoopStatement::codeGen makes up
VariableDeclarationCodeGen(s, origin, g) == WithValue(g, LAMBDA x : DeclareIn(s, origin, x))

\* llvm::Value * NReturn::codeGen(CodeGenContext & context)
ReturnCodeGen(s, g) == Emit(ExpressionCodeGen(s.retExpr, g), Inst("ret", 0, 0, 0))

RECURSIVE StatementCodeGen(_, _)
RECURSIVE BlockCodeGen(_, _, _)

\* NLoopStatement::codeGen up to the branch into the pre-block: the three blocks
\* are the next three of bbs; the counter and the loop variable are declared
\* with the pre-block on top
LoopPreBlock(s, g) ==
    LET parent == g.bbs[Top(g)].parent
        preBlock == Len(g.bbs) + 1
        bodyBlock == Len(g.bbs) + 2
        b3 == CreateBlock(CreateBlock(CreateBlock(g, "preblock", parent), "bodyblock", parent),
                          "termblock", "")
        p2 == VariableDeclarationCodeGen(
                  VariableDeclarationInit(NewType("TTINT"), "loopItCnter", Val(NewType("TTINT"))),
                  "itNum", Push(b3, preBlock))
        p3 == VariableDeclarationCodeGen(VariableDeclaration(NewType("TTINT"), s.asVar),
                                         "loopVar", p2)
        p4 == Pop(Emit(p3, Inst("br", 0, bodyBlock, 0)))
    IN  Emit(p4, Inst("br", 0, preBlock, 0))

\* NLoopStatement::codeGen from there on: the body block with the list access,
\* the body, the increment and the termination check, then the terminate block.
\* The storage of the loop variable is the last of p.values, that of the
\* counter the one before
LoopBodyBlock(s, p, bodyBlock, terminateBlock, parent) ==
    LET itNumBC == Len(p.values) - 1
        lvBC == Len(p.values)
        c1 == addVariable(PushScope(Push(p, bodyBlock)), s.asVar, lvBC)
        c2 == ExpressionCodeGen(VarAccess(s.list), c1)
        c3 == ExpressionCodeGen(VarAccess("loopItCnter"), c2)
        c4 == Emit(Emit(c3, Inst("call", "int_list_retrieve", 0, 0)), Inst("store", lvBC, 0, 0))
        c5 == BlockCodeGen(s.loopBlock, 1, c4)
        i1 == Emit(Emit(Emit(c5, Inst("load", itNumBC, 0, 0)), Inst("add", 0, 0, 0)),
                   Inst("store", itNumBC, 0, 0))
        t1 == ExpressionCodeGen(VarAccess("loopItCnter"), i1)
        t2 == ExpressionCodeGen(FunctionCall("list_length", <<VarAccess(s.list)>>), t1)
        t3 == Emit(t2, Inst("icmp", 0, 0, 0))
        t4 == Emit(t3, Inst("condbr", 0, terminateBlock, bodyBlock))
    IN  PushBack(Push(PopScope(Pop(t4)), terminateBlock), terminateBlock, parent)

\* llvm::Value * NLoopStatement::codeGen(CodeGenContext & context)
LoopStatementCodeGen(s, g) ==
    WithValue(g, LAMBDA g0 :
        WithValue(LoopPreBlock(s, g0), LAMBDA p :
            LoopBodyBlock(s, p, Len(g0.bbs) + 2, Len(g0.bbs) + 3, g0.bbs[Top(g0)].parent)))

\* Builder->SetInsertPoint(bb)
SetInsertPoint(g, bb) == [g EXCEPT !.insert = bb]

\* Builder->CreateBr(bb), at the insertion block of the Builder
CreateBr(g, bb) == WithValue(g, LAMBDA x : EmitAt(x, x.insert, Inst("br", 0, bb, 0)))

\* NIfStatement::codeGen after the code of the condition: the three blocks are
\* the next three of bbs
IfArms(s, g) ==
    LET parent == g.bbs[Top(g)].parent
        thenBlock == Len(g.bbs) + 1
        elseBlock == Len(g.bbs) + 2
        ifcontBlock == Len(g.bbs) + 3
        b3 == CreateBlock(CreateBlock(CreateBlock(g, "then", parent), "else", parent),
                          "ifcont", "")
        b4 == Emit(b3, Inst("condbr", 0, thenBlock, elseBlock))
        \* the then arm
        h1 == PushScope(Push(SetInsertPoint(b4, thenBlock), thenBlock))
        h2 == BlockCodeGen(s.thenblock, 1, h1)
        h3 == PopScope(Pop(CreateBr(h2, ifcontBlock)))
        \* the else arm
        e1 == PushScope(Push(SetInsertPoint(PushBack(h3, elseBlock, parent), elseBlock),
                             elseBlock))
        e2 == IF s.hasElse THEN BlockCodeGen(s.elseblock, 1, e1)
              ELSE IF s.hasElseif THEN StatementCodeGen(s.elseif, e1)
              ELSE e1
        e3 == PopScope(Pop(CreateBr(e2, ifcontBlock)))
    IN  SetInsertPoint(PushBack(Push(e3, ifcontBlock), ifcontBlock, parent), ifcontBlock)

\* llvm::Value * NIfStatement::codeGen(CodeGenContext & context), for a condition
\* that is a literal: its type is the one the parser has set
IfStatementCodeGen(s, g) ==
    LET tc == s.condition.type.typecode
        g0 == ExpressionCodeGen(s.condition, g)
    IN  IF tc \in {"DOUBLE", "UINT", "INT"}
        THEN WithValue(Emit(g0, Inst("icmp", 0, 0, 0)), LAMBDA x : IfArms(s, x))
        ELSE IF tc = "BOOL" THEN WithValue(g0, LAMBDA x : IfArms(s, x))
        ELSE g0

\* The parameter loop of NFunctionDeclaration::codeGen from parameter i on
RECURSIVE ParamsCodeGen(_, _, _)
ParamsCodeGen(variables, i, g) ==
    IF i > Len(variables) THEN g
    ELSE ParamsCodeGen(variables, i + 1,
                       WithValue(VariableDeclarationCodeGen(variables[i], "param", g),
                                 LAMBDA x : Emit(x, Inst("store", Len(x.values), 0, 0))))

\* NFunctionDeclaration::codeGen of a declaration with a body, once g is known
DefineIn(s, g) ==
    LET bb == Len(g.bbs) + 1
        g1 == PushScope(Push(CreateBlock(g, "entry", s.ident), bb))
        g2 == BlockCodeGen(s.body, 1, ParamsCodeGen(s.variables, 1, g1))
        g3 == IF s.type.typecode = "VOID" THEN EmitAt(g2, bb, Inst("ret", 0, 0, 0)) ELSE g2
    IN  PopScope(Pop(g3))

\* llvm::Value * NFunctionDeclaration::codeGen(CodeGenContext & context)
FunctionDeclarationCodeGen(s, g) ==
    IF ~s.hasBody THEN g ELSE WithValue(g, LAMBDA x : DefineIn(s, x))

\* llvm::Value * Node::codeGen(CodeGenContext & context), by statement class
StatementCodeGen(s, g) ==
    CASE s.k = "vardecl" -> VariableDeclarationCodeGen(s, "decl", g)
      [] s.k = "assign" -> AssignmentStatementCodeGen(s, g)
      [] s.k = "return" -> ReturnCodeGen(s, g)
      [] s.k = "if" -> IfStatementCodeGen(s, g)
      [] s.k = "loop" -> LoopStatementCodeGen(s, g)
      [] s.k = "funcdecl" -> FunctionDeclarationCodeGen(s, g)

\* llvm::Value * NBlock::codeGen(CodeGenContext & context), from statement i on
BlockCodeGen(stmts, i, g) ==
    IF i > Len(stmts) THEN g ELSE BlockCodeGen(stmts, i + 1, StatementCodeGen(stmts[i], g))

----------------------------------------------------------------------------
(* CodeGenContext::codeGen on programs that pass the analysis: the globals a,  *)
(* l and m, then statements on them, at top level or in a function body       *)

AssignA == AssignmentStatement("a", IntLit)

\* foreach (l as v) { body }
LoopOverL(v, body) == LoopStatement("l", v, body)

\* The statements emitted: assignments, ifs and foreach loops, nested in each other
EmittedStatements ==
    {AssignA,
     IfStatement(Val(TBool), <<AssignA>>),
     IfElseStatement(IntLit, <<AssignA>>, <<AssignA>>),
     IfElseifStatement(Val(TBool), <<AssignA>>, IfStatement(IntLit, <<AssignA>>)),
     IfStatement(Val(TBool), <<IfStatement(IntLit, <<AssignA>>), AssignA>>),
     IfStatement(Val(TBool), <<LoopOverL("v", <<AssignA>>)>>),
     IfElseStatement(Val(TBool), <<AssignA>>, <<LoopOverL("v", <<AssignA>>)>>),
     LoopOverL("v", <<AssignA>>),
     LoopOverL("a", <<AssignA>>),
     LoopOverL("v", <<IfStatement(Val(TBool), <<AssignA>>)>>),
     LoopOverL("v", <<LoopStatement("m", "w", <<AssignA>>)>>)}

\* int a  int l[]  int m[], then two statements, the first one at top level or
\* as the body of a function
GenPrograms ==
    UNION {{<<VariableDeclaration(TInt, "a"), VariableDeclaration(TIntList, "l"),
              VariableDeclaration(TIntList, "m"), s1, s2>>,
            <<VariableDeclaration(TInt, "a"), VariableDeclaration(TIntList, "l"),
              VariableDeclaration(TIntList, "m"),
              FunctionDeclaration(TInt, "f", <<VariableDeclaration(TInt, "p")>>,
                                  <<s1, Return(VarAccess("p"))>>),
              s2>>,
            <<VariableDeclaration(TInt, "a"), VariableDeclaration(TIntList, "l"),
              VariableDeclaration(TIntList, "m"),
              FunctionDeclaration(NewType("TTVOID"), "f", <<>>, <<s1>>),
              s2>>} :
               s1 \in EmittedStatements, s2 \in EmittedStatements}

GenInit ==
    /\ prog \in GenPrograms
    /\ pc = "passed"
    /\ context = NoContext
    /\ idx = 1
    /\ last = NoLast
    /\ status = 0
    /\ emitted = NoLoop
    /\ list = NoList
    /\ funcs = <<>>
    /\ vars = RootCtx(<<>>).vars
    /\ currType = RootCtx(<<>>).currType
    /\ currScope = RootCtx(<<>>).currScope
    /\ tyA = NoTy
    /\ tyB = NoTy
    /\ cmp = NoCmp

GenFrame ==
    UNCHANGED <<prog, status, emitted, list, funcs, vars, currType, currScope, tyA, tyB, cmp>>

\* The head of CodeGenContext::codeGen: the function main with its block entry,
\* the first scope, and the call of save_args
CodeGenEnter ==
    /\ pc = "passed"
    /\ context' = Emit(PushScope(Push(CreateBlock(NoContext, "entry", "main"), 1)),
                       Inst("call", "save_args", 0, 0))
    /\ pc' = "codegen"
    /\ UNCHANGED <<idx, last>>
    /\ GenFrame

\* rootBlock->codeGen(*this) is at a statement of class kind
AtCodeGen(kind) ==
    /\ pc = "codegen"
    /\ idx <= Len(prog)
    /\ prog[idx].k = kind

\* One turn of the loop of NBlock::codeGen on the root block
CodeGenRoot ==
    /\ context' = StatementCodeGen(prog[idx], context)
    /\ last' = [op |-> prog[idx].k, res |-> "none", at |-> idx, ident |-> ""]
    /\ idx' = idx + 1
    /\ UNCHANGED pc
    /\ GenFrame

CodeGenVariableDeclaration ==
    /\ AtCodeGen("vardecl")
    /\ CodeGenRoot

CodeGenAssignmentStatement ==
    /\ AtCodeGen("assign")
    /\ CodeGenRoot

CodeGenIfStatement ==
    /\ AtCodeGen("if")
    /\ CodeGenRoot

CodeGenLoopStatement ==
    /\ AtCodeGen("loop")
    /\ CodeGenRoot

CodeGenFunctionDeclaration ==
    /\ AtCodeGen("funcdecl")
    /\ CodeGenRoot

\* The tail of CodeGenContext::codeGen: return 0 at blocks.top(), blocks.pop()
CodeGenExit ==
    /\ pc = "codegen"
    /\ idx > Len(prog)
    /\ context' = Pop(Emit(context, Inst("ret", 0, 0, 0)))
    /\ last' = [op |-> "return 0", res |-> "none", at |-> Top(context), ident |-> ""]
    /\ pc' = "generated"
    /\ UNCHANGED idx
    /\ GenFrame

GenNext ==
    \/ CodeGenEnter
    \/ CodeGenVariableDeclaration
    \/ CodeGenAssignmentStatement
    \/ CodeGenIfStatement
    \/ CodeGenLoopStatement
    \/ CodeGenFunctionDeclaration
    \/ CodeGenExit

SpecGen == GenInit /\ [][GenNext]_allvars

----------------------------------------------------------------------------
(* Properties *)

\* The strict promotion order of the language, as (larger, smaller) typecodes
PromotionPairs ==
    {<<"DOUBLE", "INT">>, <<"DOUBLE", "UINT">>, <<"INT", "CHAR">>, <<"INT", "BOOL">>,
     <<"UINT", "BOOL">>, <<"DOUBLE", "BOOL">>, <<"STRING", "INT">>, <<"STRING", "UINT">>,
     <<"STRING", "DOUBLE">>}

\* s <= t in the promotion order
PromotionLe(s, t) ==
    \/ s = t
    \/ s.isList = t.isList /\ <<t.typecode, s.typecode>> \in PromotionPairs

\* The names called anywhere in an expression, a statement or a block
RECURSIVE CalledIn(_)
RECURSIVE CalledInBlock(_, _)
CalledIn(n) ==
    CASE n.k = "val" -> {}
      [] n.k = "var" -> {}
      [] n.k = "call" -> {n.ident} \cup UNION {CalledIn(n.args[i]) : i \in 1..Len(n.args)}
      [] n.k = "binop" -> CalledIn(n.lhs) \cup CalledIn(n.rhs)
      [] n.k = "vardecl" -> IF n.hasInit THEN CalledIn(n.init) ELSE {}
      [] n.k = "assign" -> CalledIn(n.expr)
      [] n.k = "return" -> CalledIn(n.retExpr)
      [] n.k = "if" -> CalledIn(n.condition) \cup CalledInBlock(n.thenblock, 1)
                          \cup (IF n.hasElse THEN CalledInBlock(n.elseblock, 1) ELSE {})
                          \cup (IF n.hasElseif THEN CalledIn(n.elseif) ELSE {})
      [] n.k = "loop" -> CalledInBlock(n.loopBlock, 1)
      [] n.k = "funcdecl" -> {}

CalledInBlock(stmts, i) ==
    IF i > Len(stmts) THEN {} ELSE CalledIn(stmts[i]) \cup CalledInBlock(stmts, i + 1)

\* The functions the call graph reaches from the functions of S in at most n calls
RECURSIVE ReachedFrom(_, _)
ReachedFrom(S, n) ==
    IF n = 0 THEN S
    ELSE LET callees == UNION {CalledInBlock(funcs[i].body, 1) :
                                   i \in {j \in 1..Len(funcs) : funcs[j].ident \in S}}
         IN  ReachedFrom(S \cup callees, n - 1)

\* The body of function declaration d reaches a call to d through the call graph
ReachesItself(d) == d.ident \in ReachedFrom(CalledInBlock(d.body, 1), Len(funcs))

\* The root statement the last step analysed
LastStatement == prog[last.at]

\* C1: the analysis of a function declaration whose body reaches a call to that
\* function through the call graph, wherever the calls stand, returns false
\* (recursion reported) and the compilation unit fails.
C1_RecursionReported ==
    (last.op = "funcdecl" /\ ReachesItself(LastStatement))
        => (last.res = "false" /\ pc = "failed")

\* C2: the recursion check run after a function body terminates for every
\* program: it never descends without end through a cycle of the call graph.
C2_RecursionCheckTerminates == pc # "overflow"

\* C3: when the analysis of the root block has returned, true or false, the
\* scope stack has the depth it had before the analysis: every scope pushed was
\* popped.
C3_ScopesBalanced ==
    pc \in {"passed", "failed"} => (Len(vars) = 1 /\ Len(currType) = 1 /\ currScope = 0)

\* C4: an assignment x = e to a declared variable x of scalar type T, with e of
\* scalar type S, is accepted if and only if S <= T in the promotion order.
C4_AssignmentIffPromotable ==
    (last.op = "assign" /\ searchVars(Ctx, LastStatement.ident) # <<0, 0>>)
        => LET T == VarAt(Ctx, searchVars(Ctx, LastStatement.ident)).type
           IN  \A S \in getType(LastStatement.expr, Ctx) :
                   (~T.isList /\ ~S.isList)
                       => ((last.res = "true") <=> PromotionLe(S, T))

\* C5: the promotion relation is antisymmetric: s <= t and t <= s imply s = t,
\* and s >= t and t >= s imply s = t.
C5_Antisymmetric ==
    pc = "compared"
        => /\ (cmp.le /\ cmp.leBack) => cmp.eq
           /\ (cmp.ge /\ cmp.geBack) => cmp.eq

\* C6: for two types with the same isList, operator> holds for exactly the pairs
\* of PromotionPairs; Bool is never larger than Int, UInt or Double.
C6_LargerPairs ==
    (pc = "compared" /\ tyA.isList = tyB.isList)
        => (cmp.gt <=> <<tyA.typecode, tyB.typecode>> \in PromotionPairs)

\* The names the expressions of a node refer to, as variables or as functions
RECURSIVE NamedIn(_)
RECURSIVE NamedInBlock(_, _)
NamedIn(n) ==
    CASE n.k = "val" -> {}
      [] n.k = "var" -> {n.ident}
      [] n.k = "call" -> {n.ident} \cup UNION {NamedIn(n.args[i]) : i \in 1..Len(n.args)}
      [] n.k = "binop" -> NamedIn(n.lhs) \cup NamedIn(n.rhs)
      [] n.k = "vardecl" -> IF n.hasInit THEN NamedIn(n.init) ELSE {}
      [] n.k = "assign" -> NamedIn(n.expr)
      [] n.k = "return" -> NamedIn(n.retExpr)
      [] n.k = "if" -> NamedIn(n.condition) \cup NamedInBlock(n.thenblock, 1)
                          \cup (IF n.hasElse THEN NamedInBlock(n.elseblock, 1) ELSE {})
                          \cup (IF n.hasElseif THEN NamedIn(n.elseif) ELSE {})
      [] n.k = "loop" -> NamedInBlock(n.loopBlock, 1)
      [] n.k = "funcdecl" -> NamedInBlock(n.body, 1)

NamedInBlock(stmts, i) ==
    IF i > Len(stmts) THEN {} ELSE NamedIn(stmts[i]) \cup NamedInBlock(stmts, i + 1)

\* The names a node declares, as variables, parameters or functions
RECURSIVE DeclaredIn(_)
RECURSIVE DeclaredInBlock(_, _)
DeclaredIn(n) ==
    CASE n.k = "vardecl" -> {n.ident}
      [] n.k = "if" -> DeclaredInBlock(n.thenblock, 1)
                          \cup (IF n.hasElse THEN DeclaredInBlock(n.elseblock, 1) ELSE {})
                          \cup (IF n.hasElseif THEN DeclaredIn(n.elseif) ELSE {})
      [] n.k = "loop" -> {n.asVar} \cup DeclaredInBlock(n.loopBlock, 1)
      [] n.k = "funcdecl" -> {n.ident} \cup DeclaredInBlock(n.variables, 1)
                                \cup DeclaredInBlock(n.body, 1)
      [] OTHER -> {}

DeclaredInBlock(stmts, i) ==
    IF i > Len(stmts) THEN {} ELSE DeclaredIn(stmts[i]) \cup DeclaredInBlock(stmts, i + 1)

\* C7: a program one of whose expressions refers to a variable or a function
\* that has no declaration fails analysis.  (Stated for names that the program
\* declares nowhere, which no scope can reach.)
C7_UndefinedRejected ==
    pc = "passed" => NamedInBlock(prog, 1) \subseteq DeclaredInBlock(prog, 1)

\* The last step analysed def T f(S p) { return p }
ReturnsItsParameter ==
    /\ last.op = "funcdecl"
    /\ Len(LastStatement.variables) = 1
    /\ LastStatement.body = <<Return(VarAccess(LastStatement.variables[1].ident))>>

InitialisedWithCall ==
    /\ last.op = "vardecl"
    /\ LastStatement.hasInit
    /\ LastStatement.init.k = "call"
    /\ searchFuncs(Ctx, LastStatement.init.ident) # 0
    /\ Len(funcs[searchFuncs(Ctx, LastStatement.init.ident)].variables)
           = Len(LastStatement.init.args)

\* C9: an analysed call to a registered function with the right number of
\* arguments is accepted only if each argument's type is <= the type of the
\* corresponding parameter; stated for arguments whose names are all declared.
C9_CallOnlyPromotable ==
    (/\ InitialisedWithCall
     /\ NamedIn(LastStatement.init) \subseteq DeclaredInBlock(prog, 1)
     /\ last.res = "true")
        => LET call == LastStatement.init
               func == funcs[searchFuncs(Ctx, call.ident)]
           IN  \A i \in 1..Len(call.args) :
                   \A S \in getType(call.args[i], Ctx) :
                       PromotionLe(S, func.variables[i].type)

\* A name is a registered function / a variable reachable from the current scope
IsFunction(n) == searchFuncs(Ctx, n) # 0

IsVariable(n) == searchVars(Ctx, n) # <<0, 0>>

\* C10: no name is at once a registered function and a variable reachable from
\* the current scope; registerVar of a function's name fails and registerFunc
\* of a reachable variable's name fails.
C10_NamespacesDisjoint ==
    /\ \A n \in CtxNames : ~(IsFunction(n) /\ IsVariable(n))
    /\ (last.op = "registerVar" /\ IsFunction(last.ident)) => last.res = "false"
    /\ (last.op = "registerFunc" /\ IsVariable(last.ident)) => last.res = "false"

\* A variable registration has just been refused because its name is a
\* function's, in a scope above the root while another variable is declared
C10_Witness ==
    /\ last.op = "registerVar"
    /\ last.res = "false"
    /\ IsFunction(last.ident)
    /\ Len(vars) > 1
    /\ \E n \in CtxNames : IsVariable(n)

\* The scopes of the stack that hold a declaration of n
ScopesHolding(n) == {i \in 1..Len(vars) : \E j \in 1..Len(vars[i]) : vars[i][j].ident = n}

\* The lookup of n gives the declaration of n in the innermost scope holding one,
\* and NULL when no scope holds one
InnermostFound(n) ==
    IF ScopesHolding(n) = {} THEN searchVars(Ctx, n) = <<0, 0>>
    ELSE /\ searchVars(Ctx, n)[1] \in ScopesHolding(n)
         /\ \A i \in ScopesHolding(n) : i <= searchVars(Ctx, n)[1]
         /\ VarAt(Ctx, searchVars(Ctx, n)).ident = n

\* After a pop, the lookup of n gives what the scopes below the popped one held:
\* the declaration in the innermost of them, or NULL
PopUncovers(n) ==
    LET below == {i \in ScopesHolding(n) : i < Len(vars)}
    IN  IF below = {} THEN searchVars(Ctx', n) = <<0, 0>>
        ELSE /\ searchVars(Ctx', n)[1] \in below
             /\ \A i \in below : i <= searchVars(Ctx', n)[1]
             /\ VarAt(Ctx', searchVars(Ctx', n)) = VarAt(Ctx, searchVars(Ctx', n))

\* C11: the lookup of a variable name returns the declaration registered in the
\* innermost scope on the stack that holds the name; after a scope is popped its
\* declarations are returned no more and the outer declaration they shadowed is
\* returned again.
C11_InnermostBinding ==
    /\ [](\A n \in CtxNames : InnermostFound(n))
    /\ [][last'.op = "delScope" => \A n \in CtxNames : PopUncovers(n)]_allvars

\* A declaration has just been registered that shadows a declaration of another
\* type in an outer scope, and the lookup returns the inner one
C11_Witness ==
    /\ last.op = "registerVar"
    /\ last.res = "true"
    /\ \E i \in ScopesHolding(last.ident) : i < Len(vars)
    /\ searchVars(Ctx, last.ident)[1] = Len(vars)
    /\ \E i \in 1..(Len(vars) - 1) : \E j \in 1..Len(vars[i]) :
           /\ vars[i][j].ident = last.ident
           /\ vars[i][j].type # VarAt(Ctx, searchVars(Ctx, last.ident)).type

\* C12: two record types with the same isList compare equal if and only if their
\* record names are equal.
C12_RecordNameCompared ==
    (/\ pc = "compared"
     /\ IsStructType(tyA) /\ IsStructType(tyB)
     /\ tyA.isList = tyB.isList)
        => (cmp.eq <=> tyA.ident = tyB.ident)

\* The isList flags an operand may have: a literal's own, a variable's as the
\* program's top-level declarations of its name give it
OperandIsList(e) ==
    CASE e.k = "val" -> {e.type.isList}
      [] e.k = "var" -> {prog[i].type.isList :
                            i \in {j \in 1..Len(prog) :
                                      prog[j].k = "vardecl" /\ prog[j].ident = e.ident}}
      [] OTHER -> {}

\* Node n holds a binary operation one of whose operands is a list and the other
\* is not
RECURSIVE MixedIn(_)
RECURSIVE MixedInBlock(_, _)
MixedIn(n) ==
    CASE n.k = "binop" ->
             \/ \E a \in OperandIsList(n.lhs), b \in OperandIsList(n.rhs) : a # b
             \/ MixedIn(n.lhs) \/ MixedIn(n.rhs)
      [] n.k = "call" -> \E i \in 1..Len(n.args) : MixedIn(n.args[i])
      [] n.k = "vardecl" -> n.hasInit /\ MixedIn(n.init)
      [] n.k = "assign" -> MixedIn(n.expr)
      [] n.k = "return" -> MixedIn(n.retExpr)
      [] n.k = "if" -> \/ MixedIn(n.condition)
                       \/ MixedInBlock(n.thenblock, 1)
                       \/ (n.hasElse /\ MixedInBlock(n.elseblock, 1))
                       \/ (n.hasElseif /\ MixedIn(n.elseif))
      [] n.k = "loop" -> MixedInBlock(n.loopBlock, 1)
      [] n.k = "funcdecl" -> MixedInBlock(n.body, 1)
      [] OTHER -> FALSE

MixedInBlock(stmts, i) ==
    i <= Len(stmts) /\ (MixedIn(stmts[i]) \/ MixedInBlock(stmts, i + 1))

\* C13: a program that holds a binary operation whose operands are a list and a
\* non-list fails analysis, whatever statement holds the operation.
C13_MixedOperandsRejected ==
    pc = "passed" => ~MixedInBlock(prog, 1)

\* C14: an if statement is accepted only if the type of its condition is a scalar
\* Bool, Int, UInt or Double.
C14_ConditionScalarNumeric ==
    (last.op = "if" /\ last.res = "true")
        => \A S \in getType(LastStatement.condition, Ctx) :
               ~S.isList /\ S.typecode \in {"BOOL", "INT", "UINT", "DOUBLE"}

\* C15: when a statement of a block fails analysis the remaining statements of the
\* block are analysed all the same; stated for the root block, whose analysis
\* then ends on its last statement.
C15_RemainingAnalysed ==
    pc = "failed" => last.at = Len(prog)

\* C16: once the semantic analysis of the root block has returned failure, the
\* code generator is never invoked and the process exits with a status other
\* than zero, on which the loop over the failure tests reports "passed!".
C16_FailureStopsDriver ==
    [](pc = "failed"
         => [](/\ pc # "codegen"
               /\ pc = "exited" => (status # 0 /\ FailureTest(status) = "passed!")))

\* The process has exited after an analysis that returned failure
C16_Witness ==
    /\ pc = "exited"
    /\ last.res = "false"
    /\ status = 255

\* C17: for a program that has passed analysis, a second run of the analysis over
\* the same AST with the context the first run left passes again and leaves the
\* context as the first run left it (the root scope, empty, and the functions).
C17_AnalysisIdempotent ==
    /\ pc = "passed" => Ctx = RootCtx(funcs)
    /\ pc = "reanalysed" => (last.res = "true" /\ Ctx = RootCtx(funcs))

\* C18: after createStdlib every function declaration without a body that it has
\* put at the head of the root block is found in the function table under its own
\* name.
C18_StdlibRegistered ==
    pc = "injected"
        => \A i \in 1..Len(prog) :
               (prog[i].k = "funcdecl" /\ ~prog[i].hasBody)
                   => /\ searchFuncs(Ctx, prog[i].ident) # 0
                      /\ funcs[searchFuncs(Ctx, prog[i].ident)] = prog[i]

\* The pairs (s, t) of distinct typecodes with s <= t that a coercion serves
CoercionPairs ==
    {<<"INT", "DOUBLE">>, <<"UINT", "DOUBLE">>, <<"CHAR", "INT">>, <<"BOOL", "INT">>,
     <<"BOOL", "UINT">>, <<"BOOL", "DOUBLE">>}

\* C19: for every pair of distinct types (s, t) with s <= t in the promotion
\* order, the coercion of a value of type s to type t yields a conversion
\* instruction and not an error.
C19_CoercionTotal ==
    (/\ pc = "converted"
     /\ ~IsStructType(tyA) /\ ~IsStructType(tyB)
     /\ tyA.isList = tyB.isList
     /\ <<tyA.typecode, tyB.typecode>> \in CoercionPairs)
        => last.res \notin {"error", "val"}

\* C20: in the code emitted for a foreach whose body leaves the list alone, the
\* counter has been compared with list_length(list) before the body executes,
\* and the loop ends in its terminate block having executed the body once for
\* each element of the list, in order, so not at all for an empty list.
C20_ForeachVisitsEach ==
    emitted.body = "read"
        => /\ pc = "loopBlock" => emitted.compared = Len(emitted.executed) + 1
           /\ pc \in {"termblock", "exited"}
                 => /\ pc = "termblock"
                    /\ emitted.executed = Contents(emitted.list)

\* C21: the top-level program  int a  double b = a  return b  passes the
\* analysis: no statement of it is rejected.
C21_UpcastProgramPasses ==
    prog = InitReturnProgram(NewType("TTINT"), NewType("TTDOUBLE"))
        => pc \notin {"failed", "fault", "overflow"}

\* C22: for start <= end, crema_seq(start, end) returns a list of length
\* end - start + 1 whose element at index i is start + i.
C22_SeqInclusive ==
    (last.op = "crema_seq" /\ last.at <= last.end)
        => /\ ~last.res.null
           /\ list_length(last.res.l) = last.end - last.at + 1
           /\ \A i \in 0..(last.end - last.at) :
                  int_list_retrieve(last.res.l, i) = Returns(last.at + i)

\* C23: a retrieve routine called with an index idx, 0 <= idx < list_length(list),
\* returns the element stored at idx, and it ends the program with the
\* out-of-bounds error only for an index outside that range.
C23_RetrieveInRange ==
    last.op \in {"int_list_retrieve", "str_retrieve", "double_list_retrieve"}
        => LET inRange == 0 <= last.at /\ last.at < list_length(list)
           IN  /\ inRange => last.res = Returns(list.arr.mem[last.at + 1].v)
               /\ last.res.exit => ~inRange

\* C30: whenever str_append, str_concat or str_delete writes the terminator at
\* index len of a string made by str_create and the string and list routines,
\* the buffer is allocated and len < cap.
C30_TerminatorInBuffer ==
    last.op \in {"str_append", "str_concat", "str_delete"}
        => (last.allocated /\ last.len < last.cap)

\* C24: the run of the code emitted for a foreach ends, in the terminate block
\* or by exit, after a bounded number of executions of the body, also when the
\* body appends to the list it iterates: no run goes on past MaxIterations
\* executions.
C24_ForeachTerminates == pc # "unbounded"

\* The names called in the body of declaration d that are not registered or are
\* registered without a body
MissingCallees(d) ==
    {n \in CalledInBlock(d.body, 1) \ {d.ident} :
        \/ searchFuncs(Ctx, n) = 0
        \/ ~funcs[searchFuncs(Ctx, n)].hasBody}

\* C28: the analysis of a function declaration whose body calls a name that is
\* not registered, or an external function without a body, returns: the
\* recursion check does not fault on that call.
C28_CheckSkipsMissing ==
    (last.op = "funcdecl" /\ LastStatement.hasBody /\ MissingCallees(LastStatement) # {})
        => (last.res \in {"true", "false"} /\ pc # "fault")

\* C25: once a function declaration has been emitted, the block on top of
\* context.blocks is a block of the entry function again, whatever the body
\* holds, and the closing return 0 is put in a block of the entry function
C25_EntryBlockRestored ==
    /\ (pc = "codegen" /\ last.op = "funcdecl") => context.bbs[Top(context)].parent = "main"
    /\ pc = "generated" => context.bbs[last.at].parent = "main"

\* The bindings of a scope to storage that a foreach has made up
LoopBindings(scope) ==
    {b \in scope : context.values[b.value].origin \in {"itNum", "loopVar"}}

\* C26: once a foreach at top level has been emitted, the enclosing scope holds
\* no binding the loop has introduced, and the name a resolves to the storage of
\* the variable a of the program
C26_LoopLeavesNoBinding ==
    (pc = "codegen" /\ last.op = "loop") =>
        /\ LoopBindings(context.variables[Len(context.variables)]) = {}
        /\ context.values[findVariable(context, "a")].origin = "decl"

\* The first terminator of block bb, the one a run of the block ends with
FirstTerminator(bb) ==
    LET insts == context.bbs[bb].insts
        at == {i \in 1..Len(insts) : insts[i].op \in Terminators}
    IN  IF at = {} THEN Inst("none", 0, 0, 0)
        ELSE insts[CHOOSE i \in at : \A j \in at : i <= j]

Successors(bb) ==
    LET t == FirstTerminator(bb)
    IN  CASE t.op = "br" -> {t.t}
          [] t.op = "condbr" -> {t.t, t.f}
          [] OTHER -> {}

\* The blocks a run reaches from the blocks of S before it reaches block ifcont
RECURSIVE ArmBlocks(_, _)
ArmBlocks(S, ifcont) ==
    LET N == S \cup (UNION {Successors(b) : b \in S} \ {ifcont})
    IN  IF N = S THEN S ELSE ArmBlocks(N, ifcont)

\* Block bb has one terminator, its last instruction
Terminated(bb) ==
    LET insts == context.bbs[bb].insts
    IN  /\ insts # <<>>
        /\ \A i \in 1..Len(insts) : insts[i].op \in Terminators <=> i = Len(insts)

\* Every block of the arm is terminated by a branch, and the arm reaches ifcont
ArmClosed(arm, ifcont) ==
    /\ \A b \in ArmBlocks({arm}, ifcont) :
           Terminated(b) /\ FirstTerminator(b).op \in {"br", "condbr"}
    /\ \E b \in ArmBlocks({arm}, ifcont) : ifcont \in Successors(b)

\* C27: in the code emitted for an if, every path through the then arm and
\* through the else arm ends with a branch to ifcont, and no block of an arm
\* has an instruction after its terminator
C27_ArmsBranchToIfcont ==
    \A k \in 1..Len(context.bbs) :
        context.bbs[k].name = "then" => ArmClosed(k, k + 2) /\ ArmClosed(k + 1, k + 2)

\* C29: the termination check of every foreach compares the counter that its
\* own increment has just stored: the load before list_length reads the storage
\* the store before it has written
C29_OwnCounter ==
    \A k \in 1..Len(context.bbs) :
        LET insts == context.bbs[k].insts
        IN  \A i \in 1..Len(insts) :
                (insts[i].op = "condbr" /\ context.bbs[insts[i].f].name = "bodyblock") =>
                    insts[i - 4].var = insts[i - 5].var

====
